---- MODULE Spec2Model ----
(***************************************************************************)
(* A model of the crawler's URL frontier (crawler/url_management/queue.py, *)
(* crawler/storage/persistent_queue.py) and of the engine's dispatch loop  *)
(* (crawler/core/engine.py, crawler/core/worker.py).                       *)
(*                                                                         *)
(* Time is a discrete clock `now` counted in whole seconds.  URLs are      *)
(* small integers; url 0 stands for Python's None wherever an optional     *)
(* QueuedURL is returned.                                                  *)
(***************************************************************************)
EXTENDS Integers, Sequences, FiniteSets, TLC

VARIABLES
    fq,        \* the URLQueue object: its fields, see URLQueue_init
    now,       \* time.time(), in seconds
    held,      \* QueuedURL objects returned by get and still owned by a caller
    accepted,  \* url hashes for which put has returned True in this session
    calls,     \* the calls of frontier operations that concurrent callers have
               \* made: what each has asked for and how far it has come
    op,        \* the last frontier operation, its arguments and its outcome
    config,    \* the CrawlConfig the engine has been constructed with
    eng,       \* the engine: the locals of _crawl_loop and the crawl session
    task_queue,    \* WorkerPool.task_queue
    workers,       \* the task each worker of the pool is processing, or NoTask
    result_queue,  \* WorkerPool.result_queue
    pool,      \* WorkerPool.running, the workers whose loop has ended, and how
               \* far stop and the engine's cleanup have come
    hist,      \* what the engine has dispatched and handled so far
    db,        \* the url_queue table: the rows of the session, by url hash
    boot       \* the process that owns the persistent queue: whether it is
               \* running, and how many times it has terminated

qvars == <<fq, now, held, accepted, calls, op>>
evars == <<config, eng, task_queue, workers, result_queue, hist>>
dvars == <<db, boot>>
vars == <<fq, now, held, accepted, calls, op, config, eng, task_queue, workers,
          result_queue, pool, hist, db, boot>>

----------------------------------------------------------------------------
(* Bounds of the model *)

\* the clock starts here, later than any delay after the epoch (time 0)
StartTime == 4
\* the clock is not advanced beyond StartTime + MaxElapsed
MaxElapsed == 2
\* url_queue_size of the configuration used by the model
MaxQueueSize == 2
\* put is not called any more once urls_added has reached this value
MaxAdded == 3
\* urls put by the caller that puts each url once, in the order of their numbers
MaxTied == 4
\* the number of entries a caller holds at a time
MaxHeld == 1

\* the process that owns a persistent queue terminates at most this often
MaxCrashes == 2
\* the largest max_retries the callers of mark_failed pass when retries are
\* explored, and the seconds the backoffs may take altogether
MaxRetryLimit == 3
RetryMaxElapsed == 6
\* the configuration of the engine: max_depth, max_pages, rate_limit_delay
\* (seconds), url_queue_size, queue_max_retries and the largest
\* concurrent_workers
CfgMaxDepth == 1
CfgMaxPages == 2
CfgRateLimitDelay == 1
CfgQueueSize == 3
CfgMaxRetries == 2
CfgMaxWorkers == 2
\* a wait shorter than a second carries the clock into the next second only
\* while less than this many seconds have elapsed
MaxCarry == 3
\* the engine's loop gives up after this many iterations (5000 in the code)
max_iterations == 6

URLS == {1, 2, 3}
DOMAINS == {"x", "y"}
\* (depth, priority) pairs the callers of put use: seeds, sitemap urls, links
PutKinds == {<<0, 10>>, <<1, 5>>}
MaxTime == StartTime + MaxElapsed

----------------------------------------------------------------------------
(* QueuedURL *)

None == [url |-> 0, depth |-> 0, priority |-> 0, discovered_at |-> 0, attempts |-> 0]

QueuedURL(url, depth, priority, discovered_at) ==
    [url |-> url, depth |-> depth, priority |-> priority,
     discovered_at |-> discovered_at, attempts |-> 0]

\* hashlib.md5(url).hexdigest(): injective on the urls of the model
url_hash(url) == <<"md5", url>>

\* urlparse(url).netloc
domain(url) == IF url = 3 THEN "y" ELSE "x"

\* a variant of QueuedURL.__lt__ that prefers the deeper of two entries of
\* equal priority; the ordering claim tells it from the original
QueuedURL_lt_deeper_first(self, other) ==
    \/ self.priority > other.priority
    \/ (self.priority = other.priority /\ self.depth > other.depth)
    \/ (self.priority = other.priority /\ self.depth = other.depth
        /\ self.discovered_at < other.discovered_at)

\* QueuedURL.__lt__
QueuedURL_lt(self, other) ==
    \/ self.priority > other.priority
    \/ (self.priority = other.priority /\ self.depth < other.depth)
    \/ (self.priority = other.priority /\ self.depth = other.depth
        /\ self.discovered_at < other.discovered_at)

----------------------------------------------------------------------------
(* heapq, as used by asyncio.PriorityQueue: the heap is a sequence, index 1 *)
(* is the root, the children of i are 2i and 2i+1                           *)

RECURSIVE siftdown(_, _, _, _)
siftdown(heap, startpos, pos, newitem) ==
    IF pos > startpos /\ QueuedURL_lt(newitem, heap[pos \div 2])
    THEN siftdown([heap EXCEPT ![pos] = heap[pos \div 2]], startpos, pos \div 2, newitem)
    ELSE [heap EXCEPT ![pos] = newitem]

RECURSIVE siftup_loop(_, _, _, _)
siftup_loop(heap, startpos, pos, newitem) ==
    LET childpos == 2 * pos
        rightpos == childpos + 1
        endpos == Len(heap)
    IN  IF childpos <= endpos
        THEN LET c == IF rightpos <= endpos /\ ~QueuedURL_lt(heap[childpos], heap[rightpos])
                      THEN rightpos ELSE childpos
             IN  siftup_loop([heap EXCEPT ![pos] = heap[c]], startpos, c, newitem)
        ELSE siftdown([heap EXCEPT ![pos] = newitem], startpos, pos, newitem)

heappush(heap, item) ==
    LET h == Append(heap, item) IN siftdown(h, 1, Len(h), item)

\* the heap left after heappop; the item returned is heap[1]
heappop_rest(heap) ==
    LET lastelt == heap[Len(heap)]
        rest == SubSeq(heap, 1, Len(heap) - 1)
    IN  IF rest = <<>> THEN rest
        ELSE siftup_loop([rest EXCEPT ![1] = lastelt], 1, 1, lastelt)

Range(s) == {s[i] : i \in DOMAIN s}

dict_set(d, k, v) == [x \in (DOMAIN d) \cup {k} |-> IF x = k THEN v ELSE d[x]]
dict_pop(d, k) == [x \in (DOMAIN d) \ {k} |-> d[x]]
EmptyDict == [x \in {} |-> None]

----------------------------------------------------------------------------
(* BloomFilter *)

\* BloomFilter._calculate_bit_array_size: int(-capacity * ln(0.1) / ln(2)^2)
bit_array_size(capacity) == (47925 * capacity) \div 10000

\* BloomFilter._calculate_hash_count: int(bit_array_size * ln(2) / capacity)
hash_count(capacity) == (bit_array_size(capacity) * 6931) \div (10000 * capacity)

\* Python's hash(item + str(seed)) for one fixed hash seed of the process: an
\* arbitrary function.  The one chosen makes url 3 a false positive of a
\* filter that holds urls 1 and 2.
py_hash(item, seed) ==
    LET u == item[2]
    IN  CASE u = 1 -> <<1, 5, 7>>[seed + 1]
          [] u = 2 -> <<-2, 5, 8>>[seed + 1]
          [] OTHER -> <<1, -8, 7>>[seed + 1]

abs(n) == IF n < 0 THEN -n ELSE n

\* BloomFilter._hash
BloomFilter_hash(capacity, item, seed) ==
    abs(py_hash(item, seed)) % bit_array_size(capacity)

BloomFilter_indexes(capacity, item) ==
    {BloomFilter_hash(capacity, item, i) : i \in 0 .. (hash_count(capacity) - 1)}

\* BloomFilter.add: the bit array is the set of the indexes that are set
BloomFilter_add(bit_array, capacity, item) ==
    bit_array \cup BloomFilter_indexes(capacity, item)

\* BloomFilter.contains
BloomFilter_contains(bit_array, capacity, item) ==
    BloomFilter_indexes(capacity, item) \subseteq bit_array

----------------------------------------------------------------------------
(* URLQueue *)

\* URLQueue.__init__
URLQueue_init(max_size, enable_bloom_filter) ==
    [max_size |-> max_size,
     enable_bloom_filter |-> enable_bloom_filter,
     queue |-> <<>>,
     pending_urls |-> EmptyDict,
     visited_urls |-> {},
     bit_array |-> {},
     domain_last_access |-> [d \in DOMAINS |-> 0],
     urls_added |-> 0,
     urls_processed |-> 0]

\* URLQueue.__init__ raises: BloomFilter(capacity = max_size * 2) divides by
\* its capacity in _calculate_hash_count
URLQueue_init_raises(max_size, enable_bloom_filter) ==
    enable_bloom_filter /\ max_size * 2 = 0

\* URLQueue.size
size(self) == Len(self.queue)

\* URLQueue.empty
empty(self) == Len(self.queue) = 0

\* a variant of URLQueue.full that reports a full queue one entry late; the
\* bound on the queue tells it from the original
full_one_late(self) == self.max_size > 0 /\ Len(self.queue) > self.max_size

\* URLQueue.full: asyncio.Queue.full() is False for every size when maxsize <= 0
full(self) == self.max_size > 0 /\ Len(self.queue) >= self.max_size

\* the duplicate checks of URLQueue.put
put_is_duplicate(self, h) ==
    \/ (self.enable_bloom_filter
        /\ BloomFilter_contains(self.bit_array, self.max_size * 2, h))
    \/ h \in DOMAIN self.pending_urls

\* a variant of URLQueue.put that adds the hash to the Bloom filter before it
\* looks at the capacity; the claim about a put at capacity tells it from the
\* original
put_filter_first(self, t, url, depth, priority) ==
    LET queued_url == QueuedURL(url, depth, priority, t)
        h == url_hash(url)
        marked == [self EXCEPT !.bit_array = IF self.enable_bloom_filter
                                             THEN BloomFilter_add(@, self.max_size * 2, h)
                                             ELSE @]
    IN  IF put_is_duplicate(self, h) THEN [q |-> self, ret |-> FALSE]
        ELSE IF full(self) THEN [q |-> marked, ret |-> FALSE]
        ELSE [q |-> [marked EXCEPT
                       !.queue = heappush(@, queued_url),
                       !.pending_urls = dict_set(@, h, queued_url),
                       !.urls_added = @ + 1],
              ret |-> TRUE]

\* URLQueue.put at time t: the queue after the call and the value returned
put(self, t, url, depth, priority) ==
    LET queued_url == QueuedURL(url, depth, priority, t)
        h == url_hash(url)
    IN  IF put_is_duplicate(self, h) THEN [q |-> self, ret |-> FALSE]
        ELSE IF full(self) THEN [q |-> self, ret |-> FALSE]
        ELSE [q |-> [self EXCEPT
                       !.bit_array = IF self.enable_bloom_filter
                                     THEN BloomFilter_add(@, self.max_size * 2, h)
                                     ELSE @,
                       !.queue = heappush(@, queued_url),
                       !.pending_urls = dict_set(@, h, queued_url),
                       !.urls_added = @ + 1],
              ret |-> TRUE]

\* URLQueue.put_batch: the urls are put one after the other; the count added
RECURSIVE put_batch(_, _, _, _)
put_batch(self, t, urls, priority) ==
    IF urls = <<>> THEN [q |-> self, ret |-> 0]
    ELSE LET first == put(self, t, urls[1][1], urls[1][2], priority)
             others == put_batch(first.q, t, Tail(urls), priority)
         IN  [q |-> others.q, ret |-> others.ret + (IF first.ret THEN 1 ELSE 0)]

\* URLQueue.get on a queue that is not empty, at time t
get(self, t) ==
    LET queued_url == self.queue[1]
    IN  [q |-> [self EXCEPT
                  !.queue = heappop_rest(@),
                  !.pending_urls = dict_pop(@, url_hash(queued_url.url)),
                  !.visited_urls = @ \cup {url_hash(queued_url.url)},
                  !.urls_processed = @ + 1,
                  !.domain_last_access[domain(queued_url.url)] = t],
         ret |-> queued_url]

\* a variant of URLQueue._put_back_url that leaves the urls_processed
\* statistic as get has counted it; the claim about the put-back tells it
\* from the original
put_back_url_counted(self, queued_url) ==
    IF full(self) THEN self
    ELSE [self EXCEPT
            !.queue = heappush(@, queued_url),
            !.pending_urls = dict_set(@, url_hash(queued_url.url), queued_url)]

\* URLQueue._put_back_url
put_back_url(self, queued_url) ==
    IF full(self) THEN self
    ELSE [self EXCEPT
            !.queue = heappush(@, queued_url),
            !.pending_urls = dict_set(@, url_hash(queued_url.url), queued_url),
            !.urls_processed = @ - 1]

Min(a, b) == IF a < b THEN a ELSE b
Max(a, b) == IF a > b THEN a ELSE b

\* URLQueue.get_with_rate_limit called at time t.  timeout = 0 stands for no
\* timeout.  io is the time that passes inside get after it has stamped the
\* domain (none for the in-memory queue, the store's write for the persistent
\* one).  Gives the queue after the call, the value returned, the time of the
\* return and the entry the inner get has withdrawn.
get_with_rate_limit(self, t, domain_delay, timeout, io) ==
    IF empty(self)
    THEN \* the inner get times out after min(1.0, timeout) and the queue is empty
         [q |-> self, ret |-> None, now |-> t + 1, got |-> None]
    ELSE LET g == get(self, t)
             queued_url == g.ret
             last_access == g.q.domain_last_access[domain(queued_url.url)]
             time_since_last == (t + io) - last_access
             wait_time == domain_delay - time_since_last
             remaining_time == timeout - ((t + io) - t)
         IN  IF time_since_last < domain_delay
             THEN IF timeout > 0 /\ wait_time > remaining_time
                  THEN [q |-> put_back_url(g.q, queued_url), ret |-> None,
                        now |-> t + io, got |-> queued_url]
                  ELSE [q |-> [g.q EXCEPT !.domain_last_access[domain(queued_url.url)] =
                                              t + io + wait_time],
                        ret |-> queued_url, now |-> t + io + wait_time,
                        got |-> queued_url]
             ELSE [q |-> g.q, ret |-> queued_url, now |-> t + io, got |-> queued_url]

\* 2 ** n
RECURSIVE Pow2(_)
Pow2(n) == IF n = 0 THEN 1 ELSE 2 * Pow2(n - 1)

\* a variant of URLQueue.mark_failed that re-inserts the entry at its old
\* priority; the claim about mark_failed tells it from the original
mark_failed_same_priority(self, t, queued_url, max_retries) ==
    LET attempts == queued_url.attempts + 1
        delay == Pow2(attempts)
    IN  IF attempts < max_retries
        THEN LET retry == [queued_url EXCEPT !.attempts = attempts]
             IN  IF full(self)
                 THEN [q |-> self, entry |-> retry, now |-> t + delay, ret |-> "raise"]
                 ELSE [q |-> [self EXCEPT
                                !.queue = heappush(@, retry),
                                !.pending_urls = dict_set(@, url_hash(retry.url), retry)],
                       entry |-> retry, now |-> t + delay, ret |-> "true"]
        ELSE [q |-> self, entry |-> [queued_url EXCEPT !.attempts = attempts],
              now |-> t, ret |-> "false"]

\* URLQueue.mark_failed called at time t: the queue and the QueuedURL object
\* after the call, the time of the return and the outcome, "true" or "false"
\* for the value returned, "raise" for QueueError
mark_failed(self, t, queued_url, max_retries) ==
    LET attempts == queued_url.attempts + 1
        delay == Pow2(attempts)
    IN  IF attempts < max_retries
        THEN LET retry == [queued_url EXCEPT !.attempts = attempts,
                                             !.priority = @ - 1]
             IN  IF full(self)
                 THEN [q |-> self, entry |-> retry, now |-> t + delay, ret |-> "raise"]
                 ELSE [q |-> [self EXCEPT
                                !.queue = heappush(@, retry),
                                !.pending_urls = dict_set(@, url_hash(retry.url), retry)],
                       entry |-> retry, now |-> t + delay, ret |-> "true"]
        ELSE [q |-> self, entry |-> [queued_url EXCEPT !.attempts = attempts],
              now |-> t, ret |-> "false"]

----------------------------------------------------------------------------
(* CrawlConfig, the site that is crawled, and the state after construction  *)

\* CrawlConfig: the settings the model reads.  allowed_domains and
\* blocked_domains are not configured (None, here the empty set).
CrawlConfig(concurrent_workers, enable_bloom_filter) ==
    [max_depth |-> CfgMaxDepth,
     max_pages |-> CfgMaxPages,
     concurrent_workers |-> concurrent_workers,
     rate_limit_delay |-> CfgRateLimitDelay,
     url_queue_size |-> CfgQueueSize,
     enable_bloom_filter |-> enable_bloom_filter,
     queue_max_retries |-> CfgMaxRetries,
     enable_persistent_queue |-> FALSE,
     allowed_domains |-> {},
     blocked_domains |-> {},
     start_urls |-> <<1, 2>>]

\* the links of the page a url serves
LINKS(url) ==
    CASE url = 1 -> <<1, 3>>
      [] url = 2 -> <<3>>
      [] OTHER -> <<>>

\* the <loc> entries of the sitemap of the site
SITEMAP == <<3, 2>>

\* SitemapParser._extract_urls_from_xml on a sitemap with these <loc> entries:
\* an entry is appended first and the length compared with max_urls after
RECURSIVE extract_urls_from_xml(_, _, _)
extract_urls_from_xml(locs, max_urls, urls) ==
    IF locs = <<>> THEN urls
    ELSE LET appended == Append(urls, locs[1])
         IN  IF Len(appended) >= max_urls THEN appended
             ELSE extract_urls_from_xml(Tail(locs), max_urls, appended)

\* SitemapParser.parse_sitemap of a sitemap that is served
parse_sitemap(max_urls) == extract_urls_from_xml(SITEMAP, max_urls, <<>>)

\* the Crawl-delay of a domain's robots.txt (RobotsChecker.get_crawl_delay)
robots_crawl_delay(d) == IF d = "x" THEN 2 ELSE 0

\* what a request for the robots.txt of a domain gives: status 200 with rules
\* that allow or that disallow the urls of the domain, another status, or an
\* exception
RobotsFetch == {"allow", "disallow", "status", "error"}

\* RobotsChecker._get_robots_parser: the cached parser of the domain, or the
\* parser made from the response, which is cached; the parser is "allow" or
\* "disallow" after the rules it has parsed and "none" for None.  The crawl is
\* shorter than cache_ttl, so that a cached entry is always used.
get_robots_parser(cache, d, fetch) ==
    IF cache[d] # "absent" THEN [cache |-> cache, parser |-> cache[d]]
    ELSE LET parser == IF fetch \in {"allow", "disallow"} THEN fetch ELSE "none"
         IN  [cache |-> [cache EXCEPT ![d] = parser], parser |-> parser]

\* a variant of RobotsChecker.can_fetch that refuses a url when no parser is
\* available; the claim about the robots gate tells it from the original
can_fetch_closed(cache, url, fetch, raises) ==
    LET g == get_robots_parser(cache, domain(url), fetch)
    IN  IF g.parser = "none" THEN [cache |-> g.cache, ret |-> FALSE, cause |-> "no_parser"]
        ELSE IF raises THEN [cache |-> g.cache, ret |-> TRUE, cause |-> "raised"]
        ELSE [cache |-> g.cache, ret |-> g.parser = "allow", cause |-> "parser"]

\* RobotsChecker.can_fetch for a url that has a domain: True without a
\* parser, the parser's answer otherwise, True when the parser's check raises
\* (raises); cause tells which of the three it was
can_fetch(cache, url, fetch, raises) ==
    LET g == get_robots_parser(cache, domain(url), fetch)
    IN  IF g.parser = "none" THEN [cache |-> g.cache, ret |-> TRUE, cause |-> "no_parser"]
        ELSE IF raises THEN [cache |-> g.cache, ret |-> TRUE, cause |-> "raised"]
        ELSE [cache |-> g.cache, ret |-> g.parser = "allow", cause |-> "parser"]

\* CrawlerEngine._check_robots_compliance: robots_checker is always set by
\* initialize, and can_fetch lets no exception out
check_robots_compliance(cache, url, fetch, raises) == can_fetch(cache, url, fetch, raises)

\* no url has been checked against robots.txt
NoCheck == [url |-> 0, ret |-> TRUE, cause |-> "none"]

NoTask == [url |-> 0, depth |-> 0]

\* CrawlerEngine after initialize: no crawl has been started.  pages holds
\* the rows of the pages table of the session as pairs of url and depth,
\* error_events the rows of the error_events table in the order they were
\* inserted, each as the row of the pages table that its page_id names,
\* robots_cache the _robots_cache of the RobotsChecker, last_access its
\* _last_access, where a domain that is absent reads as 0, session_row the
\* status of the row of the session in the crawl_sessions table
EngineInit ==
    [pc |-> "start", status |-> "pending", session_row |-> "absent",
     submitted_tasks |-> 0, processed_results |-> 0, pending_tasks |-> 0,
     loop_iteration |-> 0, last_queue_size |-> 0, stalled_iterations |-> 0,
     pages_crawled |-> 0, pages_failed |-> 0, pages |-> {},
     error_events |-> <<>>,
     robots_cache |-> [d \in DOMAINS |-> "absent"],
     last_access |-> [d \in DOMAINS |-> 0]]

HistInit ==
    [last_dispatch |-> [d \in DOMAINS |-> 0],
     dispatched |-> [u \in URLS |-> 0],
     handled |-> {},
     unstalled |-> [submitted_tasks |-> 0, processed_results |-> 0],
     robots_check |-> NoCheck]

\* an absent row of the url_queue table
NoRow == [status |-> "absent", depth |-> 0, priority |-> 0, discovered_at |-> 0,
          attempts |-> 0, updated_at |-> 0]

EmptyTable == [u \in URLS |-> NoRow]

\* a row of the url_queue table written at time t
Row(queued_url, status, t) ==
    [status |-> status, depth |-> queued_url.depth, priority |-> queued_url.priority,
     discovered_at |-> queued_url.discovered_at, attempts |-> queued_url.attempts,
     updated_at |-> t]

\* PersistentURLQueue.mark_url_processing: INSERT ... ON CONFLICT DO UPDATE
mark_url_processing(table, t, queued_url) ==
    IF table[queued_url.url].status = "absent"
    THEN [table EXCEPT ![queued_url.url] = Row(queued_url, "processing", t)]
    ELSE [table EXCEPT ![queued_url.url].status = "processing",
                       ![queued_url.url].updated_at = t]

\* PersistentURLQueue.mark_url_completed: UPDATE ... WHERE url_hash = $2
mark_url_completed(table, t, queued_url) ==
    IF table[queued_url.url].status = "absent" THEN table
    ELSE [table EXCEPT ![queued_url.url].status = "completed",
                       ![queued_url.url].updated_at = t]

\* PersistentURLQueue.mark_url_failed: UPDATE ... WHERE url_hash = $2
mark_url_failed(table, t, queued_url) ==
    IF table[queued_url.url].status = "absent" THEN table
    ELSE [table EXCEPT ![queued_url.url].status = "failed",
                       ![queued_url.url].updated_at = t]

\* no caller uses the frontier concurrently
NoCalls == [start |-> 0, at |-> 0, of |-> <<>>]

\* a pool that WorkerPool.start has started: every worker runs its loop, stop
\* has not been called, and the engine is not cleaning up
NoPool == [running |-> TRUE, exited |-> {}, stop |-> "none", inflight |-> {},
           cleanup |-> 0, closed |-> <<>>]

EngineIdle ==
    /\ config = CrawlConfig(CfgMaxWorkers, TRUE)
    /\ eng = EngineInit
    /\ task_queue = <<>>
    /\ workers = [w \in 1 .. CfgMaxWorkers |-> NoTask]
    /\ result_queue = <<>>
    /\ hist = HistInit

Booted == [state |-> "up", crashes |-> 0]

NoStore ==
    /\ db = EmptyTable
    /\ boot = Booted

----------------------------------------------------------------------------
(* The frontier used by callers that call one operation after the other.    *)
(* op names the operation of the last step, its arguments and its outcome:  *)
(* url and batch are the arguments of put and put_batch, got is the entry   *)
(* withdrawn by get (the argument of mark_failed), out the entry returned   *)
(* (the object after mark_failed), ok whether the call returned True or an  *)
(* entry, raised whether it raised QueueError.                              *)

NoOp == [name |-> "none", url |-> 0, batch |-> <<>>, ok |-> FALSE, raised |-> FALSE,
         got |-> None, out |-> None,
         max_retries |-> 0, domain_delay |-> 0, timeout |-> 0]

\* domain_delay and timeout arguments of get_with_rate_limit, max_retries
\* arguments of mark_failed, and batches of put_batch that the callers use
DomainDelays == {0, 1, 2}
Timeouts == {0, 1, 2}
MaxRetries == {1, 2}
Batches == {<<<<1, 1>>, <<2, 1>>>>, <<<<3, 1>>, <<3, 2>>>>, <<<<2, 2>>, <<1, 1>>>>}

InitQueue ==
    /\ fq \in {URLQueue_init(MaxQueueSize, b) : b \in BOOLEAN}
    /\ now = StartTime
    /\ held = {}
    /\ accepted = {}
    /\ calls = NoCalls
    /\ pool = NoPool
    /\ op = NoOp
    /\ EngineIdle
    /\ NoStore

\* whether some put of a put_batch returns True for a hash accepted before
RECURSIVE batch_dup(_, _, _, _, _)
batch_dup(self, t, urls, priority, acc) ==
    IF urls = <<>> THEN FALSE
    ELSE LET first == put(self, t, urls[1][1], urls[1][2], priority)
             h == url_hash(urls[1][1])
         IN  \/ (first.ret /\ h \in acc)
             \/ batch_dup(first.q, t, Tail(urls), priority,
                          IF first.ret THEN acc \cup {h} ELSE acc)

Put(url, depth, priority) ==
    /\ fq.urls_added < MaxAdded
    /\ LET r == put(fq, now, url, depth, priority)
       IN  /\ fq' = r.q
           /\ accepted' = IF r.ret THEN accepted \cup {url_hash(url)} ELSE accepted
           /\ op' = [NoOp EXCEPT !.name = "put", !.url = url, !.ok = r.ret]
    /\ UNCHANGED <<now, held, calls, evars, dvars, pool>>

PutBatch(urls, priority) ==
    /\ fq.urls_added + Len(urls) <= MaxAdded
    /\ LET r == put_batch(fq, now, urls, priority)
       IN  /\ fq' = r.q
           /\ accepted' = accepted \cup
                 {url_hash(e.url) : e \in Range(r.q.queue) \ Range(fq.queue)}
           /\ op' = [NoOp EXCEPT !.name = "put_batch", !.batch = urls, !.ok = r.ret > 0]
    /\ UNCHANGED <<now, held, calls, evars, dvars, pool>>

\* get(timeout): an entry at once when there is one, None after the timeout
Get(timeout) ==
    IF empty(fq)
    THEN /\ timeout > 0
         /\ now + timeout <= MaxTime
         /\ now' = now + timeout
         /\ op' = [NoOp EXCEPT !.name = "get", !.timeout = timeout]
         /\ UNCHANGED <<fq, held, accepted, calls, evars, dvars, pool>>
    ELSE LET r == get(fq, now)
         IN  /\ Cardinality(held) < MaxHeld
             /\ fq' = r.q
             /\ held' = held \cup {r.ret}
             /\ op' = [NoOp EXCEPT !.name = "get", !.ok = TRUE, !.got = r.ret,
                                   !.out = r.ret, !.timeout = timeout]
             /\ UNCHANGED <<now, accepted, calls, evars, dvars, pool>>

GetWithRateLimit(domain_delay, timeout) ==
    LET r == get_with_rate_limit(fq, now, domain_delay, timeout, 0)
    IN  /\ r.now <= MaxTime
        /\ Cardinality(held) < MaxHeld
        /\ fq' = r.q
        /\ now' = r.now
        /\ held' = IF r.ret = None THEN held ELSE held \cup {r.ret}
        /\ op' = [NoOp EXCEPT !.name = "get_with_rate_limit", !.ok = (r.ret # None),
                              !.got = r.got, !.out = r.ret,
                              !.domain_delay = domain_delay, !.timeout = timeout]
        /\ UNCHANGED <<accepted, calls, evars, dvars, pool>>

MarkFailed(queued_url, max_retries, limit) ==
    LET r == mark_failed(fq, now, queued_url, max_retries)
    IN  /\ r.now <= limit
        /\ fq' = r.q
        /\ now' = r.now
        /\ held' = (held \ {queued_url}) \cup (IF r.ret = "raise" THEN {r.entry} ELSE {})
        /\ op' = [NoOp EXCEPT !.name = "mark_failed", !.ok = (r.ret = "true"),
                              !.raised = (r.ret = "raise"),
                              !.got = queued_url, !.out = r.entry,
                              !.max_retries = max_retries]
        /\ UNCHANGED <<accepted, calls, evars, dvars, pool>>

\* the caller is done with an entry it has got
Release(queued_url) ==
    /\ held' = held \ {queued_url}
    /\ op' = NoOp
    /\ UNCHANGED <<fq, now, accepted, calls, evars, dvars, pool>>

\* time passes between two operations
Tick ==
    /\ now < MaxTime
    /\ now' = now + 1
    /\ op' = NoOp
    /\ UNCHANGED <<fq, held, accepted, calls, evars, dvars, pool>>

NextQueue ==
    \/ \E url \in URLS, k \in PutKinds : Put(url, k[1], k[2])
    \/ \E b \in Batches : PutBatch(b, 5)
    \/ \E timeout \in Timeouts : Get(timeout)
    \/ \E d \in DomainDelays, timeout \in Timeouts : GetWithRateLimit(d, timeout)
    \/ \E e \in held, r \in MaxRetries : MarkFailed(e, r, MaxTime)
    \/ \E e \in held : Release(e)
    \/ Tick

SpecQueue == InitQueue /\ [][NextQueue]_vars

----------------------------------------------------------------------------
(* The frontier used by a caller that retries the urls it has got: every    *)
(* entry it gets is handed to mark_failed or released, and the only time    *)
(* that passes is the backoff of mark_failed                                *)

NextRetry ==
    \/ \E url \in URLS, k \in PutKinds : Put(url, k[1], k[2])
    \/ \E timeout \in {0} : Get(timeout)
    \/ \E e \in held, r \in 1 .. MaxRetryLimit :
          MarkFailed(e, r, StartTime + RetryMaxElapsed)
    \/ \E e \in held : Release(e)

SpecRetry == InitQueue /\ [][NextRetry]_vars

----------------------------------------------------------------------------
(* The frontier used by a caller that puts urls 1, 2, ... in this order, each *)
(* once, so that the number of a url is its place in the order of insertion. *)

InitTies ==
    /\ fq = URLQueue_init(MaxTied, FALSE)
    /\ now = StartTime
    /\ held = {}
    /\ accepted = {}
    /\ calls = NoCalls
    /\ pool = NoPool
    /\ op = NoOp
    /\ EngineIdle
    /\ NoStore

PutNext(depth, priority) ==
    /\ fq.urls_added < MaxTied
    /\ LET url == fq.urls_added + 1
           r == put(fq, now, url, depth, priority)
       IN  /\ fq' = r.q
           /\ accepted' = IF r.ret THEN accepted \cup {url_hash(url)} ELSE accepted
           /\ op' = [NoOp EXCEPT !.name = "put", !.url = url, !.ok = r.ret]
    /\ UNCHANGED <<now, held, calls, evars, dvars, pool>>

SpecTies ==
    InitTies /\ [][\/ \E k \in PutKinds : PutNext(k[1], k[2])
                   \/ Get(0)
                   \/ \E e \in held : Release(e)
                   \/ Tick]_vars

----------------------------------------------------------------------------
(* CrawlerEngine and WorkerPool *)

\* the stall threshold of _crawl_loop
StallLimit == 5
\* timeout of the final drain of _crawl_loop, in seconds
FinalTimeout == 10

\* CrawlerEngine._should_continue_crawling
should_continue_crawling(e, cfg) == e.pages_crawled < cfg.max_pages

\* a variant of CrawlerEngine._should_crawl_url without the domain
\* restrictions; the claim about admission tells it from the original
should_crawl_url_any_domain(e, cfg, url, depth) ==
    IF depth > cfg.max_depth THEN FALSE
    ELSE IF e.pages_crawled >= cfg.max_pages THEN FALSE
    ELSE TRUE

\* CrawlerEngine._should_crawl_url
should_crawl_url(e, cfg, url, depth) ==
    IF depth > cfg.max_depth THEN FALSE
    ELSE IF e.pages_crawled >= cfg.max_pages THEN FALSE
    ELSE IF cfg.allowed_domains # {} /\ domain(url) \notin cfg.allowed_domains THEN FALSE
    ELSE IF cfg.blocked_domains # {} /\ domain(url) \in cfg.blocked_domains THEN FALSE
    ELSE TRUE

\* the condition of the outer while loop of _crawl_loop
loop_condition(e, q, cfg) ==
    /\ (~empty(q) \/ e.pending_tasks > 0)
    /\ should_continue_crawling(e, cfg)
    /\ e.loop_iteration < max_iterations

\* a variant of the condition of the submit loop that submits one task more;
\* the bound on pending_tasks tells it from the original
fill_condition_one_more(e, q, cfg) ==
    /\ e.pending_tasks <= cfg.concurrent_workers
    /\ ~empty(q)
    /\ should_continue_crawling(e, cfg)

\* the condition of the submit loop of _crawl_loop
fill_condition(e, q, cfg) ==
    /\ e.pending_tasks < cfg.concurrent_workers
    /\ ~empty(q)
    /\ should_continue_crawling(e, cfg)

\* queue_timeout of _crawl_loop
queue_timeout(cfg) == Max(5, cfg.rate_limit_delay * 2)

\* SelectSeq without a lambda: the links _add_links_to_queue keeps
RECURSIVE urls_to_add(_, _, _, _)
urls_to_add(e, cfg, links, depth) ==
    IF links = <<>> THEN <<>>
    ELSE (IF should_crawl_url(e, cfg, links[1], depth)
          THEN <<<<links[1], depth>>>> ELSE <<>>)
         \o urls_to_add(e, cfg, Tail(links), depth)

\* CrawlerEngine._add_links_to_queue: the queue after the call
add_links_to_queue(e, cfg, q, t, links, depth) ==
    put_batch(q, t, urls_to_add(e, cfg, links, depth), 5).q

\* CrawlerWorker._extract_and_validate_links
extract_and_validate_links(cfg, url, current_depth) ==
    IF current_depth >= cfg.max_depth THEN <<>> ELSE LINKS(url)

\* what a call of process_url gives when an exception leaves it
Escaped == [url |-> 0, depth |-> 0, success |-> FALSE, error |-> "escaped", links |-> <<>>]

\* a variant of CrawlerWorker.process_url without its except clause: the
\* exception of a failing stage leaves the call; the claim about the worker
\* boundary tells it from the original
process_url_uncaught(cfg, task, success) ==
    IF success
    THEN [url |-> task.url, depth |-> task.depth, success |-> TRUE, error |-> "none",
          links |-> extract_and_validate_links(cfg, task.url, task.depth)]
    ELSE Escaped

\* CrawlerWorker.process_url: the result of a task.  success tells whether
\* every stage of the pipeline (validation, fetch, extraction, cleaning,
\* analysis, link extraction) returns; when one raises, the except clause
\* records the error in the result, whose links are still empty
process_url(cfg, task, success) ==
    [url |-> task.url, depth |-> task.depth, success |-> success,
     error |-> IF success THEN "none" ELSE "exception",
     links |-> IF success THEN extract_and_validate_links(cfg, task.url, task.depth)
               ELSE <<>>]

\* DatabaseManager.store_page_result: the row of the result's url with the
\* result's depth; the table holds one row for a url-hash of a session, a
\* second insert fails and the engine logs it
store_page_result(pages, result) ==
    IF \E p \in pages : p[1] = result.url THEN pages
    ELSE pages \cup {<<result.url, result.depth>>}

\* the store calls of _handle_worker_result that can raise: the update of the
\* status in the queue, store_page_result, store_word_frequencies and
\* store_error_event
StoreCalls == {"queue_status", "page", "words", "error_event"}

\* the calls among them that _handle_worker_result makes inside a try block
\* with `except Exception`
StoreCaught == {"queue_status", "page", "words", "error_event"}

\* a variant of CrawlerEngine._handle_worker_result whose store calls are
\* outside of any try block; a store that raises tells it from the original
handle_worker_result_uncaught(e, cfg, q, t, result, fails) ==
    LET e0 == IF "page" \in fails THEN e
              ELSE [e EXCEPT !.pages = store_page_result(@, result)]
    IN  IF fails # {} THEN [eng |-> e, q |-> q, raised |-> TRUE]
        ELSE IF result.success
        THEN LET e1 == [e0 EXCEPT !.pages_crawled = @ + 1]
             IN  [eng |-> e1, raised |-> FALSE,
                  q |-> IF result.links # <<>>
                        THEN add_links_to_queue(e1, cfg, q, t, result.links,
                                                result.depth + 1)
                        ELSE q]
        ELSE [eng |-> [e0 EXCEPT !.pages_failed = @ + 1], q |-> q, raised |-> FALSE]

\* a variant of CrawlerEngine._handle_worker_result that counts successful
\* results only; the claim about the session counters tells it from the
\* original
handle_worker_result_uncounted_failure(e, cfg, q, t, result, fails) ==
    LET e0 == IF "page" \in fails THEN e
              ELSE [e EXCEPT !.pages = store_page_result(@, result)]
    IN  IF fails \ StoreCaught # {} THEN [eng |-> e, q |-> q, raised |-> TRUE]
        ELSE IF result.success
        THEN LET e1 == [e0 EXCEPT !.pages_crawled = @ + 1]
             IN  [eng |-> e1, raised |-> FALSE,
                  q |-> IF result.links # <<>>
                        THEN add_links_to_queue(e1, cfg, q, t, result.links,
                                                result.depth + 1)
                        ELSE q]
        ELSE [eng |-> e0, q |-> q, raised |-> FALSE]

\* a variant of CrawlerEngine._handle_worker_result that offers the links of
\* a page at the depth of the page; the claim about depths tells it from the
\* original
handle_worker_result_same_depth(e, cfg, q, t, result, fails) ==
    LET e0 == IF "page" \in fails THEN e
              ELSE [e EXCEPT !.pages = store_page_result(@, result)]
    IN  IF fails \ StoreCaught # {} THEN [eng |-> e, q |-> q, raised |-> TRUE]
        ELSE IF result.success
        THEN LET e1 == [e0 EXCEPT !.pages_crawled = @ + 1]
             IN  [eng |-> e1, raised |-> FALSE,
                  q |-> IF result.links # <<>>
                        THEN add_links_to_queue(e1, cfg, q, t, result.links,
                                                result.depth)
                        ELSE q]
        ELSE [eng |-> [e0 EXCEPT !.pages_failed = @ + 1], q |-> q, raised |-> FALSE]

\* CrawlerEngine._handle_worker_result with the in-memory queue: the page is
\* stored, for a success and for a failure, an error event is stored for a
\* failure whose page has got a page_id, the session statistics are
\* updated and the links of a successful result are offered to the queue;
\* fails are the store calls that raise in this call, and a page whose store
\* raises is not stored; gives the engine's state and the queue after the
\* call, and whether the call raised
handle_worker_result(e, cfg, q, t, result, fails) ==
    LET e0 == IF "page" \in fails THEN e
              ELSE [e EXCEPT !.pages = store_page_result(@, result)]
        \* store_page_result has returned a page_id: it is not among the
        \* calls that raise and the insert has met no row of the url
        has_page_id == "page" \notin fails /\ ~\E p \in e.pages : p[1] = result.url
    IN  IF fails \ StoreCaught # {} THEN [eng |-> e, q |-> q, raised |-> TRUE]
        ELSE IF result.success
        THEN LET e1 == [e0 EXCEPT !.pages_crawled = @ + 1]
             IN  [eng |-> e1, raised |-> FALSE,
                  q |-> IF result.links # <<>>
                        THEN add_links_to_queue(e1, cfg, q, t, result.links,
                                                result.depth + 1)
                        ELSE q]
        ELSE [eng |-> [e0 EXCEPT !.pages_failed = @ + 1,
                                 !.error_events =
                                     IF has_page_id /\ "error_event" \notin fails
                                     THEN Append(@, <<result.url, result.depth>>)
                                     ELSE @],
              q |-> q, raised |-> FALSE]

\* the readings of the clock after a wait shorter than a second that began at
\* t: the wait carries the clock into the next second or not
after_short_wait(t) == {t} \cup (IF t < StartTime + MaxCarry THEN {t + 1} ELSE {})

InitEngine ==
    /\ fq = URLQueue_init(CfgQueueSize, TRUE)
    /\ now = StartTime
    /\ held = {}
    /\ accepted = {}
    /\ calls = NoCalls
    /\ pool = NoPool
    /\ op = NoOp
    /\ config \in {CrawlConfig(n, b) : n \in 1 .. CfgMaxWorkers, b \in BOOLEAN}
    /\ eng = EngineInit
    /\ task_queue = <<>>
    /\ workers = [w \in 1 .. CfgMaxWorkers |-> NoTask]
    /\ result_queue = <<>>
    /\ hist = HistInit
    /\ NoStore

\* CrawlerEngine._discover_and_add_sitemap_urls: for every start url the
\* sitemap is parsed with max_urls = max_pages // 4 and its urls are put at
\* depth 1 with priority 3; gives the queue after the call
RECURSIVE discover_and_add_sitemap_urls(_, _, _, _)
discover_and_add_sitemap_urls(q, t, cfg, start_urls) ==
    IF start_urls = <<>> THEN q
    ELSE LET urls == parse_sitemap(cfg.max_pages \div 4)
             at_depth_1 == [i \in DOMAIN urls |-> <<urls[i], 1>>]
         IN  discover_and_add_sitemap_urls(put_batch(q, t, at_depth_1, 3).q, t, cfg,
                                           Tail(start_urls))

\* start_crawl up to the call of _crawl_loop: the session is stored, the
\* queue is created, the urls of the sitemaps and the start urls are put; an
\* exception of the creation of the queue leaves start_crawl
StartCrawl ==
    /\ eng.pc = "start"
    /\ LET q0 == URLQueue_init(config.url_queue_size, config.enable_bloom_filter)
           q1 == discover_and_add_sitemap_urls(q0, now, config, config.start_urls)
           q2 == put_batch(q1, now, [i \in DOMAIN config.start_urls |->
                                        <<config.start_urls[i], 0>>], 10).q
       IN  IF URLQueue_init_raises(config.url_queue_size, config.enable_bloom_filter)
           THEN /\ eng' = [eng EXCEPT !.pc = "raised", !.session_row = eng.status]
                /\ UNCHANGED fq
           ELSE /\ fq' = q2
                /\ eng' = [eng EXCEPT !.pc = "loop", !.last_queue_size = size(q2),
                                      !.session_row = eng.status]
    /\ UNCHANGED <<now, held, accepted, calls, op, config, task_queue, workers,
                   result_queue, hist, dvars, pool>>

\* the head of the outer loop of _crawl_loop: its condition, the count of the
\* iteration and the stall detection; hist.unstalled keeps the counts of tasks
\* and results at the last head that left stalled_iterations at 0
LoopHead ==
    /\ eng.pc = "loop"
    /\ IF ~loop_condition(eng, fq, config)
       THEN eng' = [eng EXCEPT !.pc = "final"]
       ELSE LET current_queue_size == size(fq)
                stalled == IF current_queue_size = eng.last_queue_size
                              /\ eng.pending_tasks = 0
                           THEN eng.stalled_iterations + 1 ELSE 0
            IN  IF stalled >= StallLimit
                THEN eng' = [eng EXCEPT !.pc = "final", !.loop_iteration = @ + 1,
                                        !.stalled_iterations = stalled]
                ELSE eng' = [eng EXCEPT !.pc = "fill", !.loop_iteration = @ + 1,
                                        !.stalled_iterations = stalled,
                                        !.last_queue_size = current_queue_size]
    /\ hist' = IF eng'.stalled_iterations = 0
               THEN [hist EXCEPT !.unstalled =
                        [submitted_tasks |-> eng.submitted_tasks,
                         processed_results |-> eng.processed_results]]
               ELSE hist
    /\ UNCHANGED <<qvars, config, task_queue, workers, result_queue, dvars, pool>>

\* one pass of the submit loop of _crawl_loop; fetch is what a request for
\* robots.txt gives in this pass and raises whether the parser's check raises
\* the get of a persistent queue writes the row of the url it withdraws
Fill(fetch, raises) ==
    /\ eng.pc = "fill"
    /\ IF ~fill_condition(eng, fq, config)
       THEN /\ eng' = [eng EXCEPT !.pc = "drain"]
            /\ UNCHANGED <<fq, now, task_queue, hist, db>>
       ELSE LET r == get_with_rate_limit(fq, now, config.rate_limit_delay,
                                         queue_timeout(config), 0)
                queued_url == r.ret
            IN  /\ fq' = r.q
                /\ now' = r.now
                /\ db' = IF config.enable_persistent_queue /\ r.got # None
                         THEN \* the get of a PersistentURLQueue
                              mark_url_processing(db, now, r.got)
                         ELSE db
                /\ IF queued_url = None
                   THEN /\ eng' = [eng EXCEPT !.pc = "drain"]
                        /\ UNCHANGED <<task_queue, hist>>
                   ELSE LET c == check_robots_compliance(eng.robots_cache, queued_url.url,
                                                         fetch, raises)
                            e1 == [eng EXCEPT !.robots_cache = c.cache]
                            h1 == [hist EXCEPT !.robots_check =
                                      [url |-> queued_url.url, ret |-> c.ret,
                                       cause |-> c.cause]]
                        IN  IF ~c.ret
                               \/ ~should_crawl_url(e1, config, queued_url.url,
                                                    queued_url.depth)
                            THEN /\ eng' = e1
                                 /\ hist' = h1
                                 /\ UNCHANGED task_queue
                            ELSE /\ task_queue' = Append(task_queue,
                                        [url |-> queued_url.url, depth |-> queued_url.depth])
                                 /\ eng' = [e1 EXCEPT !.submitted_tasks = @ + 1,
                                                      !.pending_tasks = @ + 1]
                                 /\ hist' = [h1 EXCEPT
                                        !.last_dispatch[domain(queued_url.url)] = r.now,
                                        !.dispatched[queued_url.url] = @ + 1]
    /\ UNCHANGED <<held, accepted, calls, op, config, workers, result_queue, boot, pool>>

\* the update of the queue status in _handle_worker_result: a persistent queue
\* has mark_url_completed and mark_url_failed, which update the row of the
\* result's url; an exception of theirs is logged
update_queue_status(table, cfg, t, result, fails) ==
    LET queued_url == QueuedURL(result.url, result.depth, 5, t)
    IN  IF ~cfg.enable_persistent_queue \/ "queue_status" \in fails THEN table
        ELSE IF result.success THEN mark_url_completed(table, t, queued_url)
        ELSE mark_url_failed(table, t, queued_url)

\* the result loop of _crawl_loop receives a result and handles it
Drain(fails) ==
    /\ eng.pc = "drain"
    /\ eng.pending_tasks > 0
    /\ result_queue # <<>>
    /\ LET r == handle_worker_result(eng, config, fq, now, Head(result_queue), fails)
       IN  /\ fq' = r.q
           /\ eng' = IF r.raised
                     THEN \* the exception leaves _crawl_loop and start_crawl
                          [r.eng EXCEPT !.pc = "raised"]
                     ELSE [r.eng EXCEPT !.processed_results = @ + 1,
                                        !.pending_tasks = @ - 1]
    /\ result_queue' = Tail(result_queue)
    /\ hist' = [hist EXCEPT !.handled = @ \cup {Head(result_queue).url}]
    /\ db' = update_queue_status(db, config, now, Head(result_queue), fails)
    /\ UNCHANGED <<now, held, accepted, calls, op, config, task_queue, workers, boot,
                   pool>>

\* the result loop ends, without pending tasks or on the timeout of 0.5 s, and
\* the iteration ends with its sleep of 0.1 s when all workers are busy
DrainEnd ==
    /\ eng.pc = "drain"
    /\ eng.pending_tasks = 0 \/ result_queue = <<>>
    /\ now' \in IF eng.pending_tasks > 0 THEN after_short_wait(now) ELSE {now}
    /\ eng' = [eng EXCEPT !.pc = "loop"]
    /\ UNCHANGED <<fq, held, accepted, calls, op, config, task_queue, workers,
                   result_queue, hist, dvars, pool>>

\* the final drain of _crawl_loop receives a result and handles it
FinalDrain(fails) ==
    /\ eng.pc = "final"
    /\ eng.pending_tasks > 0
    /\ result_queue # <<>>
    /\ LET r == handle_worker_result(eng, config, fq, now, Head(result_queue), fails)
       IN  /\ fq' = r.q
           /\ eng' = IF r.raised
                     THEN \* the exception leaves _crawl_loop and start_crawl
                          [r.eng EXCEPT !.pc = "raised"]
                     ELSE [r.eng EXCEPT !.processed_results = @ + 1,
                                        !.pending_tasks = @ - 1]
    /\ result_queue' = Tail(result_queue)
    /\ hist' = [hist EXCEPT !.handled = @ \cup {Head(result_queue).url}]
    /\ db' = update_queue_status(db, config, now, Head(result_queue), fails)
    /\ UNCHANGED <<now, held, accepted, calls, op, config, task_queue, workers, boot,
                   pool>>

\* a final drain that waits for every pending result without a timeout; a
\* worker that never delivers tells it from the original
Complete_without_timeout ==
    /\ eng.pc = "final"
    /\ eng.pending_tasks = 0
    /\ eng' = [eng EXCEPT !.pc = "done", !.status = "completed",
                          !.session_row = "completed"]
    /\ UNCHANGED <<qvars, config, task_queue, workers, result_queue, hist, dvars,
                   pool>>

\* the final drain ends, without pending tasks or on its timeout, _crawl_loop
\* returns and start_crawl sets the status of the session
Complete ==
    /\ eng.pc = "final"
    /\ eng.pending_tasks = 0 \/ result_queue = <<>>
    /\ now' = IF eng.pending_tasks > 0 THEN now + FinalTimeout ELSE now
    /\ eng' = [eng EXCEPT !.pc = "done", !.status = "completed",
                          !.session_row = "completed"]
    /\ UNCHANGED <<fq, held, accepted, calls, op, config, task_queue, workers,
                   result_queue, hist, dvars, pool>>

\* WorkerPool._worker_loop: a worker takes the next task
WorkerTake(w) ==
    /\ eng.pc # "done"
    /\ w <= config.concurrent_workers
    /\ workers[w] = NoTask
    /\ task_queue # <<>>
    /\ workers' = [workers EXCEPT ![w] = Head(task_queue)]
    /\ task_queue' = Tail(task_queue)
    /\ UNCHANGED <<qvars, config, eng, result_queue, hist, dvars, pool>>

\* WorkerPool._worker_loop: process_url returns and the result is queued; the
\* worker goes on with the next task whatever process_url did
WorkerFinish(w, success) ==
    /\ eng.pc # "done"
    /\ workers[w] # NoTask
    /\ LET result == process_url(config, workers[w], success)
       IN  result_queue' = IF result = Escaped
                           THEN \* except clause of the loop: logged, no result
                                result_queue
                           ELSE Append(result_queue, result)
    /\ workers' = [workers EXCEPT ![w] = NoTask]
    /\ UNCHANGED <<qvars, config, eng, task_queue, hist, dvars, pool>>

NextEngine ==
    \/ StartCrawl
    \/ LoopHead
    \/ Fill("allow", FALSE)
    \/ Drain({})
    \/ DrainEnd
    \/ FinalDrain({})
    \/ Complete
    \/ \E w \in 1 .. CfgMaxWorkers : WorkerTake(w)
    \/ \E w \in 1 .. CfgMaxWorkers, success \in BOOLEAN : WorkerFinish(w, success)

SpecEngine == InitEngine /\ [][NextEngine]_vars

\* the steps of _crawl_loop, and the return of start_crawl after it
CrawlLoopStep ==
    \/ LoopHead
    \/ Fill("allow", FALSE)
    \/ Drain({})
    \/ DrainEnd
    \/ FinalDrain({})
    \/ Complete

InitFair == InitEngine /\ config = CrawlConfig(CfgMaxWorkers, TRUE)

\* Every await of _crawl_loop is a wait with a timeout, a sleep, or a call
\* that returns without waiting for a worker, so the event loop always runs
\* the coroutine again: its steps are weakly fair.  Nothing is assumed of the
\* workers, which may hold a task for ever.
FairEngine == InitFair /\ [][NextEngine]_vars /\ WF_vars(CrawlLoopStep)

\* The engine with domain restrictions and with a depth limit of 0 or 1, on a
\* site whose robots.txt may allow, disallow, be missing or fail to load.
DomainFilters == {<<{}, {}>>, <<{"x"}, {}>>, <<{"y"}, {}>>, <<{}, {"y"}>>}

GateConfigs ==
    {[CrawlConfig(CfgMaxWorkers, TRUE) EXCEPT !.max_depth = max_depth,
                                              !.allowed_domains = f[1],
                                              !.blocked_domains = f[2]] :
        max_depth \in 0 .. CfgMaxDepth, f \in DomainFilters}

InitGate ==
    /\ fq = URLQueue_init(CfgQueueSize, TRUE)
    /\ now = StartTime
    /\ held = {}
    /\ accepted = {}
    /\ calls = NoCalls
    /\ pool = NoPool
    /\ op = NoOp
    /\ config \in GateConfigs
    /\ eng = EngineInit
    /\ task_queue = <<>>
    /\ workers = [w \in 1 .. CfgMaxWorkers |-> NoTask]
    /\ result_queue = <<>>
    /\ hist = HistInit
    /\ NoStore

NextGate ==
    \/ StartCrawl
    \/ LoopHead
    \/ \E fetch \in RobotsFetch, raises \in BOOLEAN : Fill(fetch, raises)
    \/ Drain({})
    \/ DrainEnd
    \/ FinalDrain({})
    \/ Complete
    \/ \E w \in 1 .. CfgMaxWorkers : WorkerTake(w)
    \/ \E w \in 1 .. CfgMaxWorkers, success \in BOOLEAN : WorkerFinish(w, success)

SpecGate == InitGate /\ [][NextGate]_vars

\* The engine with a persistent queue, on the same site.
InitPersistentEngine ==
    /\ fq = URLQueue_init(CfgQueueSize, TRUE)
    /\ now = StartTime
    /\ held = {}
    /\ accepted = {}
    /\ calls = NoCalls
    /\ pool = NoPool
    /\ op = NoOp
    /\ config = [CrawlConfig(CfgMaxWorkers, TRUE) EXCEPT !.enable_persistent_queue = TRUE]
    /\ eng = EngineInit
    /\ task_queue = <<>>
    /\ workers = [w \in 1 .. CfgMaxWorkers |-> NoTask]
    /\ result_queue = <<>>
    /\ hist = HistInit
    /\ NoStore

\* The steps of _crawl_loop are weakly fair, as above, whatever robots.txt
\* gives.  A worker takes a task that is queued, and every request of its
\* pipeline has a timeout, so that it delivers: the steps of the workers are
\* weakly fair as well.
FairPersistentEngine ==
    /\ InitPersistentEngine
    /\ [][NextGate]_vars
    /\ WF_vars(CrawlLoopStep)
    /\ WF_vars(\E fetch \in RobotsFetch, raises \in BOOLEAN : Fill(fetch, raises))
    /\ WF_vars(\E w \in 1 .. CfgMaxWorkers : WorkerTake(w))
    /\ WF_vars(\E w \in 1 .. CfgMaxWorkers, success \in BOOLEAN : WorkerFinish(w, success))

\* the page limit of a crawl whose sitemap quota, max_pages // 4, admits both
\* urls of the sitemap
SeedMaxPages == 8

\* The engine with that page limit, where the sitemap gives a url that is
\* also a start url, and with a url_queue_size of 0, which no validator of
\* the configuration excludes.
InitSeed ==
    /\ fq = URLQueue_init(CfgQueueSize, TRUE)
    /\ now = StartTime
    /\ held = {}
    /\ accepted = {}
    /\ calls = NoCalls
    /\ pool = NoPool
    /\ op = NoOp
    /\ config \in {[CrawlConfig(CfgMaxWorkers, b) EXCEPT !.max_pages = SeedMaxPages] :
                      b \in BOOLEAN}
                   \cup {[CrawlConfig(CfgMaxWorkers, TRUE) EXCEPT !.url_queue_size = 0]}
    /\ eng = EngineInit
    /\ task_queue = <<>>
    /\ workers = [w \in 1 .. CfgMaxWorkers |-> NoTask]
    /\ result_queue = <<>>
    /\ hist = HistInit
    /\ NoStore

SpecSeed == InitSeed /\ [][NextEngine]_vars

\* the depth limit of a crawl that follows a chain of links for as many
\* iterations as the stall detection counts
StallMaxDepth == 5

\* The engine with one worker, without the Bloom filter, with that depth limit
\* and the page limit above: page 1 links to itself, and every handling of
\* its result puts it into the queue again, one level deeper.
InitStall ==
    /\ fq = URLQueue_init(CfgQueueSize, TRUE)
    /\ now = StartTime
    /\ held = {}
    /\ accepted = {}
    /\ calls = NoCalls
    /\ pool = NoPool
    /\ op = NoOp
    /\ config = [CrawlConfig(1, FALSE) EXCEPT !.max_pages = SeedMaxPages,
                                              !.max_depth = StallMaxDepth]
    /\ eng = EngineInit
    /\ task_queue = <<>>
    /\ workers = [w \in 1 .. CfgMaxWorkers |-> NoTask]
    /\ result_queue = <<>>
    /\ hist = HistInit
    /\ NoStore

SpecStall == InitStall /\ [][NextEngine]_vars

\* The engine with a store whose calls may raise while a result is handled.
NextStore ==
    \/ StartCrawl
    \/ LoopHead
    \/ Fill("allow", FALSE)
    \/ \E fails \in SUBSET StoreCalls : Drain(fails)
    \/ DrainEnd
    \/ \E fails \in SUBSET StoreCalls : FinalDrain(fails)
    \/ Complete
    \/ \E w \in 1 .. CfgMaxWorkers : WorkerTake(w)
    \/ \E w \in 1 .. CfgMaxWorkers, success \in BOOLEAN : WorkerFinish(w, success)

SpecStore == InitEngine /\ [][NextStore]_vars

----------------------------------------------------------------------------
(* PersistentURLQueue and the url_queue table of one session.  A timestamp  *)
(* written with datetime.fromtimestamp and read with timestamp() keeps its   *)
(* whole seconds, so rows hold the clock's readings themselves.             *)

\* PersistentURLQueue._sync_to_database: the pending rows are deleted and the
\* entries of _pending_urls are inserted, ON CONFLICT DO UPDATE
sync_to_database(table, t, self) ==
    [u \in URLS |->
        LET old == IF table[u].status = "pending" THEN NoRow ELSE table[u]
            h == url_hash(u)
        IN  IF h \in DOMAIN self.pending_urls
            THEN LET queued_url == self.pending_urls[h]
                 IN  IF old.status = "absent"
                     THEN Row(queued_url, "pending", t)
                     ELSE [old EXCEPT !.priority = queued_url.priority,
                                      !.attempts = queued_url.attempts,
                                      !.status = "pending",
                                      !.updated_at = t]
            ELSE old]

\* ORDER BY priority DESC, depth ASC, discovered_at ASC: row a is before row b
row_before(a, b) ==
    \/ a.priority > b.priority
    \/ (a.priority = b.priority /\ a.depth < b.depth)
    \/ (a.priority = b.priority /\ a.depth = b.depth
        /\ a.discovered_at < b.discovered_at)

\* the orders in which the SELECT of the pending rows may return them: rows
\* that compare equal come in any order
pending_rows(table) ==
    LET U == {u \in URLS : table[u].status = "pending"}
        n == Cardinality(U)
    IN  {s \in [1 .. n -> U] :
            /\ \A i, j \in 1 .. n : i # j => s[i] # s[j]
            /\ \A i, j \in 1 .. n : i < j => ~row_before(table[s[j]], table[s[i]])}

\* the loop of _load_queue_state over the pending rows: await self._queue.put
\* never returns when the queue is full
RECURSIVE load_pending(_, _, _)
load_pending(self, table, rows) ==
    IF rows = <<>> THEN [q |-> self, hung |-> FALSE]
    ELSE IF full(self) THEN [q |-> self, hung |-> TRUE]
    ELSE LET row == table[rows[1]]
             queued_url == [url |-> rows[1], depth |-> row.depth,
                            priority |-> row.priority,
                            discovered_at |-> row.discovered_at,
                            attempts |-> row.attempts]
             h == url_hash(rows[1])
         IN  load_pending([self EXCEPT
                             !.queue = heappush(@, queued_url),
                             !.pending_urls = dict_set(@, h, queued_url),
                             !.bit_array = IF self.enable_bloom_filter
                                           THEN BloomFilter_add(@, self.max_size * 2, h)
                                           ELSE @],
                          table, Tail(rows))

\* the loop of _load_queue_state over the completed and failed rows
RECURSIVE load_visited(_, _)
load_visited(self, hashes) ==
    IF hashes = {} THEN self
    ELSE LET h == CHOOSE x \in hashes : TRUE
         IN  load_visited([self EXCEPT
                             !.visited_urls = @ \cup {h},
                             !.bit_array = IF self.enable_bloom_filter
                                           THEN BloomFilter_add(@, self.max_size * 2, h)
                                           ELSE @],
                          hashes \ {h})

\* PersistentURLQueue.recover_interrupted_session at time t: the table after
recover_interrupted_session(table, t) ==
    [u \in URLS |->
        IF table[u].status = "processing" /\ table[u].updated_at < t
        THEN [table[u] EXCEPT !.status = "pending", !.updated_at = t]
        ELSE table[u]]

\* PersistentURLQueue._load_queue_state at time t on a new queue, the SELECT
\* returning the pending rows in the order rows
load_queue_state(self, table, rows, t) ==
    LET p == load_pending(self, table, rows)
    IN  IF p.hung THEN [q |-> p.q, table |-> table, hung |-> TRUE]
        ELSE [q |-> load_visited(p.q, {url_hash(u) : u \in
                        {x \in URLS : table[x].status \in {"completed", "failed"}}}),
              table |-> recover_interrupted_session(table, t),
              hung |-> FALSE]

\* the calls of get_with_rate_limit: domain_delay, timeout, and the seconds
\* the write to the store takes
RateLimitCalls == {<<2, 1, 0>>, <<1, 5, 0>>, <<1, 5, 1>>}

\* the urls put into the persistent queue
PersistUrls == {1, 2}

\* the state after create_persistent_queue for a session without rows
InitPersist ==
    /\ fq \in {URLQueue_init(n, b) : n \in 1 .. MaxQueueSize, b \in BOOLEAN}
    /\ now = StartTime
    /\ held = {}
    /\ accepted = {}
    /\ calls = NoCalls
    /\ pool = NoPool
    /\ op = NoOp
    /\ EngineIdle
    /\ db = EmptyTable
    /\ boot = Booted

\* PersistentURLQueue.put
PPut(url, depth, priority) ==
    /\ boot.state = "up"
    /\ Put(url, depth, priority)

\* put_batch of a PersistentURLQueue
PPutBatch(urls, priority) ==
    /\ boot.state = "up"
    /\ PutBatch(urls, priority)

\* PersistentURLQueue.get on a queue that is not empty
PGet ==
    /\ boot.state = "up"
    /\ ~empty(fq)
    /\ Cardinality(held) < MaxHeld
    /\ LET r == get(fq, now)
       IN  /\ fq' = r.q
           /\ db' = mark_url_processing(db, now, r.ret)
           /\ held' = held \cup {r.ret}
           /\ op' = [NoOp EXCEPT !.name = "get", !.ok = TRUE, !.got = r.ret, !.out = r.ret]
    /\ UNCHANGED <<now, accepted, calls, evars, boot, pool>>

\* get_with_rate_limit of a PersistentURLQueue: its get is the one above, whose
\* write to the store takes io seconds
PGetWithRateLimit(domain_delay, timeout, io) ==
    /\ boot.state = "up"
    /\ Cardinality(held) < MaxHeld
    /\ LET r == get_with_rate_limit(fq, now, domain_delay, timeout, io)
       IN  /\ r.now <= MaxTime
           /\ fq' = r.q
           /\ now' = r.now
           /\ db' = IF r.got = None THEN db
                    ELSE mark_url_processing(db, now + io, r.got)
           /\ held' = IF r.ret = None THEN held ELSE held \cup {r.ret}
           /\ op' = [NoOp EXCEPT !.name = "get_with_rate_limit", !.ok = (r.ret # None),
                                 !.got = r.got, !.out = r.ret,
                                 !.domain_delay = domain_delay, !.timeout = timeout]
    /\ UNCHANGED <<accepted, calls, evars, boot, pool>>

\* mark_failed of a PersistentURLQueue
PMarkFailed(queued_url, max_retries) ==
    /\ boot.state = "up"
    /\ MarkFailed(queued_url, max_retries, MaxTime)

\* the owner of an entry reports it completed
MarkUrlCompleted(queued_url) ==
    /\ boot.state = "up"
    /\ db' = mark_url_completed(db, now, queued_url)
    /\ held' = held \ {queued_url}
    /\ op' = [NoOp EXCEPT !.name = "mark_url_completed", !.got = queued_url]
    /\ UNCHANGED <<fq, now, accepted, calls, evars, boot, pool>>

\* the owner of an entry reports it failed
MarkUrlFailed(queued_url) ==
    /\ boot.state = "up"
    /\ db' = mark_url_failed(db, now, queued_url)
    /\ held' = held \ {queued_url}
    /\ op' = [NoOp EXCEPT !.name = "mark_url_failed", !.got = queued_url]
    /\ UNCHANGED <<fq, now, accepted, calls, evars, boot, pool>>

\* PersistentURLQueue._sync_worker: the periodic _sync_to_database
Sync ==
    /\ boot.state = "up"
    /\ db' = sync_to_database(db, now, fq)
    /\ op' = [NoOp EXCEPT !.name = "sync"]
    /\ UNCHANGED <<fq, now, held, accepted, calls, evars, boot, pool>>

\* the process terminates: its memory is lost, the table stays
Crash ==
    /\ boot.state = "up"
    /\ boot.crashes < MaxCrashes
    /\ now < MaxTime
    /\ boot' = [state |-> "down", crashes |-> boot.crashes + 1]
    /\ now' = now + 1
    /\ fq' = URLQueue_init(fq.max_size, fq.enable_bloom_filter)
    /\ held' = {}
    /\ op' = NoOp
    /\ UNCHANGED <<accepted, calls, evars, db, pool>>

\* a new process creates the queue of the same session and initializes it:
\* _load_queue_state, which does not return when the pending rows do not fit
Restart(rows) ==
    /\ boot.state = "down"
    /\ LET r == load_queue_state(fq, db, rows, now)
       IN  /\ fq' = r.q
           /\ db' = r.table
           /\ boot' = [boot EXCEPT !.state = IF r.hung THEN "hung" ELSE "up"]
    /\ op' = [NoOp EXCEPT !.name = "load"]
    /\ UNCHANGED <<now, held, accepted, calls, evars, pool>>

NextPersist ==
    \/ \E url \in PersistUrls : PPut(url, 1, 5)
    \/ PPutBatch(<<<<1, 1>>, <<2, 1>>>>, 5)
    \/ PGet
    \/ \E a \in RateLimitCalls : PGetWithRateLimit(a[1], a[2], a[3])
    \/ \E e \in held : PMarkFailed(e, CfgMaxRetries)
    \/ \E e \in held : MarkUrlCompleted(e)
    \/ \E e \in held : MarkUrlFailed(e)
    \/ Sync
    \/ Crash
    \/ \E rows \in pending_rows(db) : Restart(rows)

SpecPersist == InitPersist /\ [][NextPersist]_vars

----------------------------------------------------------------------------
(* The frontier used by callers that run as tasks of one event loop.  A task *)
(* runs until it awaits something that is not ready; the steps below are the *)
(* stretches between two such awaits.  self._lock is held during none of    *)
(* these awaits, so acquiring it never suspends a task.                     *)

\* the last reading of the clock in runs with concurrent callers
ConcMaxElapsed == 3

CALLERS == {1, 2}

\* the operations the callers ask for: put of a start url, put_batch of two
\* links, get_with_rate_limit, and mark_failed of the entry got before
CallMenu ==
    {[name |-> "put", url |-> u, domain_delay |-> 0, timeout |-> 0] : u \in {1, 2}}
    \cup {[name |-> "put_batch", url |-> 0, domain_delay |-> 0, timeout |-> 0]}
    \cup {[name |-> "get_with_rate_limit", url |-> 0, domain_delay |-> a[1],
           timeout |-> a[2]] : a \in {<<0, 1>>, <<1, 0>>, <<2, 1>>}}
    \cup {[name |-> "mark_failed", url |-> 0, domain_delay |-> 0, timeout |-> 0]}

\* the batch of the put_batch of a caller
CallBatch == <<<<1, 1>>, <<2, 1>>>>

\* the entry that was got from the queue before the callers start, and that
\* one of them may report failed
FailedEntry == QueuedURL(3, 0, 10, StartTime)

\* what a call has returned: ok for True or an entry, n for the count of a
\* put_batch or the url of the entry, raised for QueueError
NoRet == [ok |-> FALSE, n |-> 0, raised |-> FALSE]

\* a call that has not been made yet
NoCall == [name |-> "none", url |-> 0, domain_delay |-> 0, timeout |-> 0,
           pc |-> "idle", began |-> 0, wake |-> 0, entry |-> None, ret |-> NoRet]

\* the queues the callers start with: url 3 has been put and got, and then
\* the urls of content have been put
StartQueues ==
    {put_batch(get(put(URLQueue_init(n, b), StartTime, 3, 0, 10).q, StartTime).q,
               StartTime, content, 10).q :
        n \in 1 .. MaxQueueSize, b \in BOOLEAN,
        content \in {<<>>, <<<<1, 0>>>>, <<<<2, 0>>, <<1, 0>>>>}}

InitConc ==
    /\ fq \in StartQueues
    /\ now = StartTime
    /\ held = {FailedEntry}
    /\ accepted = {}
    /\ calls = [start |-> fq, at |-> StartTime, of |-> [c \in CALLERS |-> NoCall]]
    /\ pool = NoPool
    /\ op = NoOp
    /\ EngineIdle
    /\ NoStore

\* asyncio.PriorityQueue.get on a queue that is not empty: the entry leaves
\* the heap
queue_get(self) == [q |-> [self EXCEPT !.queue = heappop_rest(@)], ret |-> self.queue[1]]

\* URLQueue.get after self._queue.get has returned queued_url: the locked
\* section and the stamp of the domain
get_after_dequeue(self, t, queued_url) ==
    [self EXCEPT
       !.pending_urls = dict_pop(@, url_hash(queued_url.url)),
       !.visited_urls = @ \cup {url_hash(queued_url.url)},
       !.urls_processed = @ + 1,
       !.domain_last_access[domain(queued_url.url)] = t]

\* get_with_rate_limit from the return of its get at time t to its next await
\* or its return: the call c after it, and the queue
rate_limit_after_get(self, t, c, queued_url) ==
    LET q1 == get_after_dequeue(self, t, queued_url)
        last_access == q1.domain_last_access[domain(queued_url.url)]
        time_since_last == t - last_access
        wait_time == c.domain_delay - time_since_last
        remaining_time == c.timeout - (t - c.began)
    IN  IF time_since_last < c.domain_delay
        THEN IF c.timeout > 0 /\ wait_time > remaining_time
             THEN [q |-> put_back_url(q1, queued_url),
                   call |-> [c EXCEPT !.pc = "done", !.entry = queued_url]]
             ELSE [q |-> q1,
                   call |-> [c EXCEPT !.pc = "sleeping", !.entry = queued_url,
                                      !.wake = t + wait_time]]
        ELSE [q |-> q1,
              call |-> [c EXCEPT !.pc = "done", !.entry = queued_url,
                                 !.ret = [NoRet EXCEPT !.ok = TRUE, !.n = queued_url.url]]]

\* a caller calls put
CallPut(c, m) ==
    /\ calls.of[c].pc = "idle"
    /\ m.name = "put"
    /\ LET r == put(fq, now, m.url, 0, 10)
       IN  /\ fq' = r.q
           /\ calls' = [calls EXCEPT !.of[c] =
                          [NoCall EXCEPT !.name = m.name, !.url = m.url, !.pc = "done",
                                         !.began = now, !.ret.ok = r.ret]]
    /\ UNCHANGED <<now, held, accepted, op, evars, dvars, pool>>

\* a caller calls put_batch: no put of the batch awaits anything that is not
\* ready, so the batch is put in one stretch
CallPutBatch(c, m) ==
    /\ calls.of[c].pc = "idle"
    /\ m.name = "put_batch"
    /\ LET r == put_batch(fq, now, CallBatch, 5)
       IN  /\ fq' = r.q
           /\ calls' = [calls EXCEPT !.of[c] =
                          [NoCall EXCEPT !.name = m.name, !.pc = "done", !.began = now,
                                         !.ret.ok = TRUE, !.ret.n = r.ret]]
    /\ UNCHANGED <<now, held, accepted, op, evars, dvars, pool>>

\* a caller calls get_with_rate_limit.  Its get awaits self._queue.get()
\* through asyncio.wait_for, which runs it as a task of its own before Python
\* 3.12 (suspends) and inline from 3.12 on: with the task, other callers run
\* between the removal of the entry from the heap and the rest of get.
CallGetWithRateLimit(c, m, suspends) ==
    /\ calls.of[c].pc = "idle"
    /\ m.name = "get_with_rate_limit"
    /\ LET call == [NoCall EXCEPT !.name = m.name, !.domain_delay = m.domain_delay,
                                  !.timeout = m.timeout, !.began = now]
       IN  IF empty(fq)
           THEN /\ calls' = [calls EXCEPT !.of[c] = [call EXCEPT !.pc = "waiting",
                                                                 !.wake = now + 1]]
                /\ UNCHANGED fq
           ELSE LET g == queue_get(fq)
                IN  IF suspends
                    THEN /\ fq' = g.q
                         /\ calls' = [calls EXCEPT !.of[c] =
                                        [call EXCEPT !.pc = "dequeued", !.entry = g.ret]]
                    ELSE LET r == rate_limit_after_get(g.q, now, call, g.ret)
                         IN  /\ fq' = r.q
                             /\ calls' = [calls EXCEPT !.of[c] = r.call]
    /\ UNCHANGED <<now, held, accepted, op, evars, dvars, pool>>

\* the get of a caller that waits for an entry finds one
GetArrives(c, suspends) ==
    /\ calls.of[c].pc = "waiting"
    /\ ~empty(fq)
    /\ LET g == queue_get(fq)
       IN  IF suspends
           THEN /\ fq' = g.q
                /\ calls' = [calls EXCEPT !.of[c].pc = "dequeued", !.of[c].entry = g.ret]
           ELSE LET r == rate_limit_after_get(g.q, now, calls.of[c], g.ret)
                IN  /\ fq' = r.q
                    /\ calls' = [calls EXCEPT !.of[c] = r.call]
    /\ UNCHANGED <<now, held, accepted, op, evars, dvars, pool>>

\* the get of a caller that waits times out on an empty queue, and
\* get_with_rate_limit returns None
GetTimesOut(c) ==
    /\ calls.of[c].pc = "waiting"
    /\ now >= calls.of[c].wake
    /\ empty(fq)
    /\ calls' = [calls EXCEPT !.of[c].pc = "done"]
    /\ UNCHANGED <<fq, now, held, accepted, op, evars, dvars, pool>>

\* the task of a caller runs again after wait_for has got the entry
GetResumes(c) ==
    /\ calls.of[c].pc = "dequeued"
    /\ LET r == rate_limit_after_get(fq, now, calls.of[c], calls.of[c].entry)
       IN  /\ fq' = r.q
           /\ calls' = [calls EXCEPT !.of[c] = r.call]
    /\ UNCHANGED <<now, held, accepted, op, evars, dvars, pool>>

\* the sleep of get_with_rate_limit ends: the domain is stamped and the
\* entry returned
GetWakes(c) ==
    /\ calls.of[c].pc = "sleeping"
    /\ calls.of[c].name = "get_with_rate_limit"
    /\ now >= calls.of[c].wake
    /\ fq' = [fq EXCEPT !.domain_last_access[domain(calls.of[c].entry.url)] = now]
    /\ calls' = [calls EXCEPT !.of[c].pc = "done",
                              !.of[c].ret = [NoRet EXCEPT !.ok = TRUE,
                                                          !.n = calls.of[c].entry.url]]
    /\ UNCHANGED <<now, held, accepted, op, evars, dvars, pool>>

\* a caller calls mark_failed(max_retries = CfgMaxRetries) for the entry it
\* holds: attempts and priority are changed and the backoff begins
CallMarkFailed(c, m) ==
    /\ calls.of[c].pc = "idle"
    /\ m.name = "mark_failed"
    /\ FailedEntry \in held
    /\ LET attempts == FailedEntry.attempts + 1
       IN  IF attempts < CfgMaxRetries
           THEN calls' = [calls EXCEPT !.of[c] =
                            [NoCall EXCEPT !.name = m.name, !.pc = "sleeping",
                                           !.began = now, !.wake = now + Pow2(attempts),
                                           !.entry = [FailedEntry EXCEPT
                                                        !.attempts = attempts,
                                                        !.priority = @ - 1]]]
           ELSE calls' = [calls EXCEPT !.of[c] =
                            [NoCall EXCEPT !.name = m.name, !.pc = "done", !.began = now,
                                           !.entry = [FailedEntry EXCEPT
                                                        !.attempts = attempts]]]
    /\ held' = held \ {FailedEntry}
    /\ UNCHANGED <<fq, now, accepted, op, evars, dvars, pool>>

\* the backoff of mark_failed ends: the entry is put into the heap, or
\* QueueError is raised when the queue is full
MarkFailedWakes(c) ==
    /\ calls.of[c].pc = "sleeping"
    /\ calls.of[c].name = "mark_failed"
    /\ now >= calls.of[c].wake
    /\ IF full(fq)
       THEN /\ calls' = [calls EXCEPT !.of[c].pc = "done", !.of[c].ret.raised = TRUE]
            /\ UNCHANGED fq
       ELSE /\ fq' = [fq EXCEPT
                        !.queue = heappush(@, calls.of[c].entry),
                        !.pending_urls = dict_set(@, url_hash(calls.of[c].entry.url),
                                                  calls.of[c].entry)]
            /\ calls' = [calls EXCEPT !.of[c].pc = "done", !.of[c].ret.ok = TRUE]
    /\ UNCHANGED <<now, held, accepted, op, evars, dvars, pool>>

\* time passes while no task is ready to run
ConcTick ==
    /\ now < StartTime + ConcMaxElapsed
    /\ \A c \in CALLERS :
          /\ calls.of[c].pc # "dequeued"
          /\ calls.of[c].pc \in {"sleeping", "waiting"} => now < calls.of[c].wake
    /\ now' = now + 1
    /\ UNCHANGED <<fq, held, accepted, calls, op, evars, dvars, pool>>

NextConc ==
    \/ \E c \in CALLERS, m \in CallMenu : CallPut(c, m)
    \/ \E c \in CALLERS, m \in CallMenu : CallPutBatch(c, m)
    \/ \E c \in CALLERS, m \in CallMenu, suspends \in BOOLEAN :
          CallGetWithRateLimit(c, m, suspends)
    \/ \E c \in CALLERS, suspends \in BOOLEAN : GetArrives(c, suspends)
    \/ \E c \in CALLERS : GetTimesOut(c)
    \/ \E c \in CALLERS : GetResumes(c)
    \/ \E c \in CALLERS : GetWakes(c)
    \/ \E c \in CALLERS, m \in CallMenu : CallMarkFailed(c, m)
    \/ \E c \in CALLERS : MarkFailedWakes(c)
    \/ ConcTick

SpecConc == InitConc /\ [][NextConc]_vars

----------------------------------------------------------------------------
(* The end of the engine: CrawlerEngine.cleanup and WorkerPool.stop, with    *)
(* workers that are idle or in the middle of a pipeline and with tasks that  *)
(* are still queued.                                                         *)

\* what cleanup closes, in the order of its statements
CleanupOrder == <<"http", "queue", "db", "robots", "sitemap", "workers">>

\* hasattr(self.url_queue, 'cleanup'): URLQueue and PersistentURLQueue define
\* close, and neither defines cleanup
hasattr_cleanup == FALSE

\* a variant of the sentinels of stop with one sentinel for the whole pool;
\* two idle workers tell it from the original
stop_sentinels_one(n) == <<NoTask>>

\* the sentinels stop puts into the task queue: None for every worker
stop_sentinels(n) == [i \in 1 .. n |-> NoTask]

\* the tasks the pool may hold when the engine ends
PoolTasks == {[url |-> 1, depth |-> 0], [url |-> 3, depth |-> 1]}

InitShutdown ==
    /\ fq = URLQueue_init(CfgQueueSize, TRUE)
    /\ now = StartTime
    /\ held = {}
    /\ accepted = {}
    /\ calls = NoCalls
    /\ pool = NoPool
    /\ op = NoOp
    /\ config = CrawlConfig(CfgMaxWorkers, TRUE)
    /\ eng = [EngineInit EXCEPT !.pc = "done", !.status = "completed",
                                !.session_row = "completed"]
    /\ workers \in [1 .. CfgMaxWorkers -> {NoTask} \cup PoolTasks]
    /\ task_queue \in {<<>>} \cup {<<t>> : t \in PoolTasks}
                         \cup {<<t, u>> : t \in PoolTasks, u \in PoolTasks}
    /\ result_queue = <<>>
    /\ hist = HistInit
    /\ NoStore

\* the next statement of CrawlerEngine.cleanup; its last one calls
\* WorkerPool.stop, which clears running, puts the sentinels and waits for
\* the worker tasks
CleanupStep ==
    /\ pool.cleanup < Len(CleanupOrder)
    /\ pool.stop # "gathering"
    /\ LET resource == CleanupOrder[pool.cleanup + 1]
       IN  IF resource = "workers"
           THEN IF ~pool.running
                THEN /\ pool' = [pool EXCEPT !.cleanup = @ + 1]
                     /\ UNCHANGED task_queue
                ELSE /\ pool' = [pool EXCEPT
                                   !.running = FALSE,
                                   !.stop = "gathering",
                                   !.inflight = {workers[w].url :
                                                   w \in {v \in 1 .. CfgMaxWorkers :
                                                             workers[v] # NoTask}}]
                     /\ task_queue' = task_queue \o stop_sentinels(CfgMaxWorkers)
           ELSE /\ pool' = IF resource = "queue" /\ ~hasattr_cleanup
                           THEN [pool EXCEPT !.cleanup = @ + 1]
                           ELSE [pool EXCEPT !.cleanup = @ + 1,
                                             !.closed = Append(@, resource)]
                /\ UNCHANGED task_queue
    /\ UNCHANGED <<qvars, config, eng, workers, result_queue, hist, dvars>>

\* asyncio.gather of the worker tasks returns when every worker loop has
\* ended; stop and cleanup return
StopReturns ==
    /\ pool.stop = "gathering"
    /\ pool.exited = 1 .. CfgMaxWorkers
    /\ pool' = [pool EXCEPT !.stop = "returned", !.cleanup = @ + 1,
                            !.closed = Append(@, "workers")]
    /\ UNCHANGED <<qvars, config, eng, task_queue, workers, result_queue, hist, dvars>>

\* WorkerPool._worker_loop: the get of an idle worker returns; on a sentinel
\* the loop ends
PoolTake(w) ==
    /\ w \notin pool.exited
    /\ workers[w] = NoTask
    /\ task_queue # <<>>
    /\ IF Head(task_queue) = NoTask
       THEN /\ pool' = [pool EXCEPT !.exited = @ \cup {w}]
            /\ UNCHANGED workers
       ELSE /\ workers' = [workers EXCEPT ![w] = Head(task_queue)]
            /\ UNCHANGED pool
    /\ task_queue' = Tail(task_queue)
    /\ UNCHANGED <<qvars, config, eng, result_queue, hist, dvars>>

\* WorkerPool._worker_loop: process_url returns, the result is queued and
\* the condition of the loop is evaluated; a fetch on the closed HTTP
\* session fails
PoolFinish(w, success) ==
    /\ w \notin pool.exited
    /\ workers[w] # NoTask
    /\ LET result == process_url(config, workers[w],
                                 success /\ \A i \in DOMAIN pool.closed :
                                                pool.closed[i] # "http")
       IN  result_queue' = IF result = Escaped THEN result_queue
                           ELSE Append(result_queue, result)
    /\ workers' = [workers EXCEPT ![w] = NoTask]
    /\ pool' = IF pool.running THEN pool ELSE [pool EXCEPT !.exited = @ \cup {w}]
    /\ UNCHANGED <<qvars, config, eng, task_queue, hist, dvars>>

NextShutdown ==
    \/ CleanupStep
    \/ StopReturns
    \/ \E w \in 1 .. CfgMaxWorkers : PoolTake(w)
    \/ \E w \in 1 .. CfgMaxWorkers, success \in BOOLEAN : PoolFinish(w, success)

\* cleanup awaits nothing that waits for another task before it calls stop;
\* a worker whose get has an item is run by the event loop, and a pipeline
\* ends because its request has a total timeout: these steps are weakly fair
SpecShutdown ==
    /\ InitShutdown
    /\ [][NextShutdown]_vars
    /\ WF_vars(CleanupStep)
    /\ WF_vars(StopReturns)
    /\ \A w \in 1 .. CfgMaxWorkers :
          /\ WF_vars(PoolTake(w))
          /\ WF_vars(\E success \in BOOLEAN : PoolFinish(w, success))

----------------------------------------------------------------------------
(* RobotsChecker.should_wait_for_crawl_delay, asked by a caller at any time. *)
(* hist.robots_check records the call: its url, the seconds returned and the *)
(* reading of the clock.                                                     *)

should_wait_for_crawl_delay(last_access, url, t) ==
    LET d == domain(url)
        crawl_delay == robots_crawl_delay(d)
        time_since_last == t - last_access[d]
    IN  IF crawl_delay <= 0 THEN [last_access |-> last_access, ret |-> 0]
        ELSE IF time_since_last >= crawl_delay
             THEN [last_access |-> [last_access EXCEPT ![d] = t], ret |-> 0]
             ELSE [last_access |-> last_access, ret |-> crawl_delay - time_since_last]

ShouldWait(url) ==
    LET r == should_wait_for_crawl_delay(eng.last_access, url, now)
    IN  /\ eng' = [eng EXCEPT !.last_access = r.last_access]
        /\ hist' = [hist EXCEPT !.robots_check =
                        [url |-> url, ret |-> r.ret, cause |-> "crawl_delay", at |-> now]]
        /\ UNCHANGED <<qvars, config, task_queue, workers, result_queue, dvars, pool>>

SpecRobots == InitEngine /\ [][Tick \/ \E url \in URLS : ShouldWait(url)]_vars

----------------------------------------------------------------------------
(* Claims about the frontier *)

\* C1 (Dedup): put never returns True for a url whose url-hash an earlier put
\* of the session has accepted, whatever has happened to the earlier entry
\* since, with the bloom filter enabled or disabled.
C1_Dedup ==
    [][/\ (op'.name = "put" /\ op'.ok) => url_hash(op'.url) \notin accepted
       /\ op'.name = "put_batch" => ~batch_dup(fq, now, op'.batch, 5, accepted)]_vars

\* Y ranks strictly above X: higher priority, or equal priority and smaller
\* depth, or equal priority and depth and an earlier discovered_at
RanksAbove(y, x) ==
    \/ y.priority > x.priority
    \/ (y.priority = x.priority /\ y.depth < x.depth)
    \/ (y.priority = x.priority /\ y.depth = x.depth
        /\ y.discovered_at < x.discovered_at)

\* C2 (Ordering): whenever get withdraws an entry X, no entry pending in the
\* frontier at that instant ranks strictly above X.
C2_Ordering ==
    [][(op'.name \in {"get", "get_with_rate_limit"} /\ op'.got # None)
         => \A i \in DOMAIN fq.queue : ~RanksAbove(fq.queue[i], op'.got)]_vars

\* a get has chosen between two entries of equal priority and depth by their
\* discovered_at, and another time between entries of equal priority by depth
C2_Witness ==
    /\ op.name \in {"get", "get_with_rate_limit"}
    /\ op.got # None
    /\ \E i \in DOMAIN fq.queue :
          /\ fq.queue[i].priority = op.got.priority
          /\ \/ fq.queue[i].depth > op.got.depth
             \/ (fq.queue[i].depth = op.got.depth
                 /\ fq.queue[i].discovered_at > op.got.discovered_at)

C7_CrashRecovery ==
    [][/\ (boot.state = "down" /\ boot'.state = "up")
            => \A u \in URLS : db[u].status = "processing"
                  => url_hash(u) \in DOMAIN fq'.pending_urls
       /\ op'.name = "sync"
            => \A u \in URLS : db[u].status = "pending" => db'[u].status # "absent"]_vars

\* the priorities put is called with
PutPriorities == {k[2] : k \in PutKinds} \cup {5}

----------------------------------------------------------------------------
(* Claims about the engine *)

\* the step is the dispatch of url u to the worker pool
IsDispatch(u) == hist'.dispatched[u] = hist.dispatched[u] + 1

\* the step is the handling of a worker result by _handle_worker_result
IsHandle ==
    /\ eng'.processed_results = eng.processed_results + 1
    /\ result_queue # <<>>

\* C4 (Rate limit): a url of a domain D is dispatched at least
\* max(rate_limit_delay, robots crawl-delay of D) seconds after the previous
\* dispatch of a url of D.
C4_RateLimit ==
    [][\A u \in URLS :
         (IsDispatch(u) /\ hist.last_dispatch[domain(u)] # 0)
           => now' - hist.last_dispatch[domain(u)] >=
                Max(config.rate_limit_delay, robots_crawl_delay(domain(u)))]_vars

\* C5 (Page limit): when start_crawl has completed, pages_crawled is at most
\* max_pages.
C5_PageLimit ==
    eng.status = "completed" => eng.pages_crawled <= config.max_pages

\* C6: pending_tasks is between 0 and concurrent_workers, and the tasks in the
\* task channel plus the tasks the workers execute are at most
\* concurrent_workers.
C6_PendingTasks ==
    /\ 0 <= eng.pending_tasks
    /\ eng.pending_tasks <= config.concurrent_workers
    /\ Len(task_queue) + Cardinality({w \in DOMAIN workers : workers[w] # NoTask})
         <= config.concurrent_workers

\* the submit loop stops with urls left in the queue because as many tasks
\* are pending as there are workers, two of them
C6_Witness ==
    /\ eng.pc = "fill"
    /\ config.concurrent_workers = 2
    /\ eng.pending_tasks = config.concurrent_workers
    /\ ~empty(fq)

\* C8 (No url is processed twice): a url whose worker result has been handled
\* is not dispatched to a worker again.
C8_NoReprocess ==
    [][\A u \in URLS : IsDispatch(u) => u \notin hist.handled]_vars

\* C9 (Engine retry): when the engine handles a failure result of a url that
\* has been dispatched fewer than queue_max_retries times and the queue has
\* room, mark_failed has put the url back among the pending entries, to be
\* dispatched again.
C9_EngineRetry ==
    [][(/\ IsHandle
        /\ ~Head(result_queue).success
        /\ hist.dispatched[Head(result_queue).url] < config.queue_max_retries
        /\ ~full(fq))
         => url_hash(Head(result_queue).url) \in DOMAIN fq'.pending_urls]_vars

----------------------------------------------------------------------------
(* Claims about get_with_rate_limit *)

\* the step is a get_with_rate_limit that has withdrawn an entry and has put
\* it back because the wait for its domain exceeds the remaining timeout
IsPutBack ==
    /\ op'.name = "get_with_rate_limit"
    /\ op'.got # None
    /\ op'.out = None

\* C11 (Put-back): when get_with_rate_limit withdraws an entry and the wait
\* for its domain exceeds the remaining timeout, the call returns None, the
\* entry is pending again with the same priority, depth and discovered_at,
\* and the size of the queue and urls_processed are what they were before
\* the call.
C11_PutBack ==
    [][IsPutBack =>
         /\ ~op'.ok
         /\ op'.got = fq.queue[1]
         /\ op'.got \in Range(fq'.queue)
         /\ url_hash(op'.got.url) \in DOMAIN fq'.pending_urls
         /\ fq'.pending_urls[url_hash(op'.got.url)] = op'.got
         /\ size(fq') = size(fq)
         /\ fq'.urls_processed = fq.urls_processed]_vars

\* a get_with_rate_limit with a timeout has put back the entry it withdrew,
\* and entries had been got from the queue before
C11_Witness ==
    /\ op.name = "get_with_rate_limit"
    /\ op.got # None
    /\ op.out = None
    /\ op.timeout > 0
    /\ op.got \in Range(fq.queue)
    /\ fq.urls_processed > 0

\* C12 (last access): a get_with_rate_limit that puts the entry back and
\* returns None leaves the last-access time of every domain unchanged.
C12_LastAccessFrame ==
    [][IsPutBack => fq'.domain_last_access = fq.domain_last_access]_vars

\* the wait that remains at time t of a delay after the last access of
\* domain d; 0 stands for a domain that was never accessed
remaining_delay(self, t, d, domain_delay) ==
    IF self.domain_last_access[d] = 0 THEN 0
    ELSE Max(0, domain_delay - (t - self.domain_last_access[d]))

\* C13 (Remaining delay): a get_with_rate_limit that returns an entry has
\* waited max(0, domain_delay - (now - last access of the entry's domain)),
\* hence not at all for a domain never accessed or accessed at least
\* domain_delay ago.
C13_RemainingDelay ==
    [][(op'.name = "get_with_rate_limit" /\ op'.out # None)
         => now' - now = remaining_delay(fq, now, domain(op'.out.url),
                                         op'.domain_delay)]_vars

----------------------------------------------------------------------------
(* Claims about the worker pool and the handling of results *)

\* the workers that execute a task
busy_workers == {w \in DOMAIN workers : workers[w] # NoTask}

\* C14 (Worker boundary): every task submitted to the pool gives exactly one
\* result on the result queue: the tasks submitted are those waiting, those
\* executed, and those whose result is queued or handled; a worker that ends
\* a task queues one result for the task's url, and when a stage of the
\* pipeline raised the result has success = False and the error recorded.
C14_WorkerBoundary ==
    /\ [](/\ eng.submitted_tasks = Len(task_queue) + Cardinality(busy_workers)
                                      + Len(result_queue) + eng.processed_results
          /\ \A i \in DOMAIN result_queue :
                /\ result_queue[i] # Escaped
                /\ result_queue[i].success <=> result_queue[i].error = "none")
    /\ [][\A w \in DOMAIN workers :
            (workers[w] # NoTask /\ workers'[w] = NoTask)
              => /\ Len(result_queue') = Len(result_queue) + 1
                 /\ result_queue'[Len(result_queue')].url = workers[w].url
                 /\ result_queue'[Len(result_queue')].depth = workers[w].depth]_vars

\* the result of a task whose pipeline raised is queued with the error, and
\* the worker pool executes another task after it
C14_Witness ==
    /\ \E i \in DOMAIN result_queue :
          ~result_queue[i].success /\ result_queue[i].error = "exception"
    /\ busy_workers # {}
    /\ eng.processed_results > 0

\* C15 (Counter accounting): handling a worker result adds one to
\* pages_crawled when the result is a success and one to pages_failed when it
\* is a failure, and leaves the other counter; no step decreases a counter;
\* pages_crawled + pages_failed is the number of results handled.
C15_Counters ==
    /\ [](eng.pages_crawled + eng.pages_failed = eng.processed_results)
    /\ [][/\ eng'.pages_crawled >= eng.pages_crawled
          /\ eng'.pages_failed >= eng.pages_failed
          /\ IsHandle =>
                IF Head(result_queue).success
                THEN /\ eng'.pages_crawled = eng.pages_crawled + 1
                     /\ eng'.pages_failed = eng.pages_failed
                ELSE /\ eng'.pages_crawled = eng.pages_crawled
                     /\ eng'.pages_failed = eng.pages_failed + 1]_vars

\* results of both kinds have been handled
C15_Witness ==
    /\ eng.pages_crawled > 0
    /\ eng.pages_failed > 0
    /\ eng.processed_results >= 3

\* C16 (Depth): the task submitted for an entry withdrawn from the queue
\* carries the entry's depth, the worker's result carries the task's depth,
\* the page stored for a result carries the result's depth, and the entries
\* that handling a result of depth d adds to the queue are links of the
\* result's page at depth d + 1.
C16_Depth ==
    [][/\ \A u \in URLS :
            IsDispatch(u) =>
              /\ fq.queue[1].url = u
              /\ task_queue' = Append(task_queue, [url |-> u, depth |-> fq.queue[1].depth])
       /\ \A w \in DOMAIN workers :
            /\ (workers[w] = NoTask /\ workers'[w] # NoTask)
                  => workers'[w] = Head(task_queue)
            /\ (workers[w] # NoTask /\ workers'[w] = NoTask)
                  => /\ result_queue'[Len(result_queue')].url = workers[w].url
                     /\ result_queue'[Len(result_queue')].depth = workers[w].depth
       /\ IsHandle =>
            LET result == Head(result_queue)
            IN  /\ eng'.pages \ eng.pages \subseteq {<<result.url, result.depth>>}
                /\ \E p \in eng'.pages : p[1] = result.url
                /\ \A e \in Range(fq'.queue) \ Range(fq.queue) :
                      /\ e.depth = result.depth + 1
                      /\ \E i \in DOMAIN LINKS(result.url) :
                            LINKS(result.url)[i] = e.url]_vars

\* a link of a stored page of depth 0 is pending at depth 1 with the priority
\* of discovered links
C16_Witness ==
    \E e \in Range(fq.queue), p \in eng.pages :
        /\ e.priority = 5
        /\ p[2] = 0
        /\ e.depth = p[2] + 1
        /\ \E i \in DOMAIN LINKS(p[1]) : LINKS(p[1])[i] = e.url

----------------------------------------------------------------------------
(* Claims about what the engine admits *)

\* C17 (Depth budget): no entry of the queue has a depth greater than
\* max_depth, whether it was put as a start url, from a sitemap or as a link
\* of a crawled page.
C17_DepthBudget ==
    \A e \in Range(fq.queue) : e.depth <= config.max_depth

\* whether the host of a url passes the domain restrictions of the
\* configuration
host_admitted(cfg, url) ==
    /\ cfg.allowed_domains = {} \/ domain(url) \in cfg.allowed_domains
    /\ domain(url) \notin cfg.blocked_domains

IsCheck ==
    /\ eng.pc = "fill"
    /\ fq'.urls_processed = fq.urls_processed + 1

\* C19 (Robots gate): a task is submitted only for a url for which can_fetch
\* has returned True; when no parser is available for the url's domain,
\* because robots.txt was answered with another status than 200 or the
\* request failed, or when the check raises, can_fetch returns True and the
\* url is dispatched if should_crawl admits it.
C19_RobotsGate ==
    [][/\ \A u \in URLS :
            IsDispatch(u) => hist'.robots_check.url = u /\ hist'.robots_check.ret
       /\ IsCheck =>
            LET c == hist'.robots_check
                queued_url == fq.queue[1]
                parser == eng'.robots_cache[domain(queued_url.url)]
            IN  /\ c.url = queued_url.url
                /\ ~c.ret => ~IsDispatch(c.url)
                /\ ~c.ret => (parser = "disallow" /\ c.cause = "parser")
                /\ parser = "none" <=> c.cause = "no_parser"
                /\ (c.cause \in {"no_parser", "raised"})
                      => /\ c.ret
                         /\ should_crawl_url(eng, config, c.url, queued_url.depth)
                               => IsDispatch(c.url)]_vars

\* the urls of a domain whose robots.txt disallows them were checked and not
\* dispatched, and a url of a domain whose robots.txt could not be fetched
\* was checked, allowed and dispatched
C19_Witness ==
    /\ eng.robots_cache["x"] = "disallow"
    /\ hist.dispatched[1] = 0
    /\ hist.dispatched[2] = 0
    /\ eng.robots_cache["y"] = "none"
    /\ hist.robots_check = [url |-> 3, ret |-> TRUE, cause |-> "no_parser"]
    /\ hist.dispatched[3] = 1

----------------------------------------------------------------------------
(* Claims about the url_queue table *)

\* C20 (Status transitions): the status of a row of the url_queue table
\* changes only from pending to processing, from processing to completed or
\* failed, and back to pending from processing (put-back, recovery) or from
\* failed (retry); a completed row keeps its status under every interleaving
\* of get, mark completed, mark failed and the periodic sync.
C20_StatusTransitions ==
    [][\A u \in URLS :
         LET old == db[u].status
             new == db'[u].status
         IN  /\ old = "completed" => new = "completed"
             /\ (new # old /\ old # "absent" /\ new # "absent")
                   => \/ old = "pending" /\ new = "processing"
                      \/ old = "processing" /\ new \in {"completed", "failed", "pending"}
                      \/ old = "failed" /\ new = "pending"]_vars

\* C21 (Write-through mirror): when put, get, mark_url_completed or
\* mark_url_failed of the persistent queue returns, the url_queue table holds
\* a row of the url whose status is the one the queue has in memory:
\* pending after an accepted put, processing after a get, completed and
\* failed after the two marks.
C21_WriteThrough ==
    [][/\ (op'.name = "put" /\ op'.ok) => db'[op'.url].status = "pending"
       /\ (op'.name \in {"get", "get_with_rate_limit"} /\ op'.out # None)
             => db'[op'.out.url].status = "processing"
       /\ op'.name = "mark_url_completed" => db'[op'.got.url].status = "completed"
       /\ op'.name = "mark_url_failed" => db'[op'.got.url].status = "failed"]_vars

\* what a frontier holds, without the readings of the clock
QueueView(q) ==
    [entries |-> {<<q.queue[i].url, q.queue[i].depth, q.queue[i].priority,
                    q.queue[i].attempts>> : i \in 1 .. Len(q.queue)},
     pending |-> DOMAIN q.pending_urls,
     visited |-> q.visited_urls,
     bit_array |-> q.bit_array,
     urls_added |-> q.urls_added,
     urls_processed |-> q.urls_processed]

\* the call of caller c made alone, as one step, on the queue s.q at time s.t
SerialStep(s, c) ==
    LET call == calls.of[c]
    IN  CASE call.name = "put" ->
               LET r == put(s.q, s.t, call.url, 0, 10)
               IN  [q |-> r.q, t |-> s.t,
                    ret |-> [s.ret EXCEPT ![c] = [NoRet EXCEPT !.ok = r.ret]]]
          [] call.name = "put_batch" ->
               LET r == put_batch(s.q, s.t, CallBatch, 5)
               IN  [q |-> r.q, t |-> s.t,
                    ret |-> [s.ret EXCEPT ![c] = [NoRet EXCEPT !.ok = TRUE, !.n = r.ret]]]
          [] call.name = "get_with_rate_limit" ->
               LET r == get_with_rate_limit(s.q, s.t, call.domain_delay, call.timeout, 0)
               IN  [q |-> r.q, t |-> r.now,
                    ret |-> [s.ret EXCEPT ![c] = [NoRet EXCEPT !.ok = r.ret # None,
                                                               !.n = r.ret.url]]]
          [] call.name = "mark_failed" ->
               LET r == mark_failed(s.q, s.t, FailedEntry, CfgMaxRetries)
               IN  [q |-> r.q, t |-> r.now,
                    ret |-> [s.ret EXCEPT ![c] = [NoRet EXCEPT !.ok = r.ret = "true",
                                                               !.raised = r.ret = "raise"]]]
          [] OTHER -> s

\* the calls made one after the other in the given order, from the queue
\* the callers started with
SerialRun(order) ==
    SerialStep(SerialStep([q |-> calls.start, t |-> calls.at,
                           ret |-> [c \in CALLERS |-> NoRet]], order[1]), order[2])

AllDone == \A c \in CALLERS : calls.of[c].pc = "done"

\* C22: when concurrent put, put_batch, get_with_rate_limit and mark_failed
\* calls have all returned, the frontier and the values returned are those of
\* the same calls made one after the other in some order.
C22_Atomicity ==
    AllDone =>
        \E order \in {<<1, 2>>, <<2, 1>>} :
            /\ QueueView(SerialRun(order).q) = QueueView(fq)
            /\ \A c \in CALLERS : SerialRun(order).ret[c] = calls.of[c].ret

\* C23: once the dispatch loop is entered start_crawl returns, whatever the
\* workers do: the dispatch loop ends (empty queue, page limit, stall
\* detection or the cap on its iterations) and the final drain ends.
C23_Termination == (eng.pc = "loop") ~> (eng.pc = "done")

\* the crawl has ended on the cap of the iterations with a task that a
\* worker took and never delivered
C23_Witness ==
    /\ eng.pc = "done"
    /\ eng.loop_iteration = max_iterations
    /\ eng.pending_tasks > 0
    /\ \E w \in 1 .. CfgMaxWorkers : workers[w] # NoTask

\* the step takes a worker result from the result queue to handle it
IsResultTaken ==
    /\ eng.pc \in {"drain", "final"}
    /\ result_queue # <<>>
    /\ result_queue' = Tail(result_queue)

\* C24: whichever store calls raise while a result is handled, the handler
\* returns normally and the loop goes on (same place of the loop, the result
\* counted as processed), the session counter of the result is updated, and
\* the queue is the one a call without failures gives: the links of a
\* successful result are offered.
C24_StoreFailuresSwallowed ==
    [][IsResultTaken =>
          LET result == Head(result_queue)
          IN  /\ eng'.pc = eng.pc
              /\ eng'.processed_results = eng.processed_results + 1
              /\ eng'.pending_tasks = eng.pending_tasks - 1
              /\ eng'.pages_crawled = eng.pages_crawled + (IF result.success THEN 1 ELSE 0)
              /\ eng'.pages_failed = eng.pages_failed + (IF result.success THEN 0 ELSE 1)
              /\ fq' = handle_worker_result(eng, config, fq, now, result, {}).q]_vars

\* a successful page was handled and counted, its store raised so that no
\* page is stored for it, and its link is in the queue
C24_Witness ==
    /\ eng.pc # "raised"
    /\ eng.pages_crawled > 0
    /\ eng.pages = {}
    /\ hist.handled # {}
    /\ \E i \in 1 .. Len(fq.queue) : fq.queue[i].priority = 5 /\ fq.queue[i].depth = 1

\* C25: the session is pending when start_crawl begins, it is running when a
\* url is dispatched, it is completed when start_crawl has returned, and a
\* completed session stays completed.
C25_SessionLifecycle ==
    /\ [](eng.pc = "start" => eng.status = "pending")
    /\ [](eng.pc = "done" => eng.status = "completed")
    /\ [][/\ (\E u \in URLS : IsDispatch(u)) =>
                eng.status = "running" /\ eng'.status = "running"
          /\ eng.status = "completed" => eng'.status = "completed"]_vars

\* C26: when the dispatch loop starts, every start url is in the queue at
\* depth 0 with priority 10.
C26_Seeding ==
    (eng.pc = "loop" /\ eng.loop_iteration = 0) =>
        \A k \in DOMAIN config.start_urls :
            \E i \in 1 .. Len(fq.queue) :
                /\ fq.queue[i].url = config.start_urls[k]
                /\ fq.queue[i].depth = 0
                /\ fq.queue[i].priority = 10

\* C27: when stop has returned every worker loop has ended and the result of
\* every pipeline that was running when stop was called is in the result
\* queue; and stop returns, whatever the workers were doing and whatever was
\* queued.
C27_Cancellation ==
    /\ [](pool.stop = "returned" =>
            /\ pool.exited = 1 .. CfgMaxWorkers
            /\ \A u \in pool.inflight :
                  \E i \in 1 .. Len(result_queue) : result_queue[i].url = u)
    /\ (pool.stop = "gathering") ~> (pool.stop = "returned")

\* stop has returned after it was called with a pipeline running, and a task
\* that no worker took is left in the task queue
C27_Witness ==
    /\ pool.stop = "returned"
    /\ pool.inflight # {}
    /\ \E i \in 1 .. Len(task_queue) : task_queue[i] # NoTask

\* the place of a resource in the order of closing, 0 when it is not closed
ClosedAt(resource) ==
    IF \E i \in DOMAIN pool.closed : pool.closed[i] = resource
    THEN CHOOSE i \in DOMAIN pool.closed : pool.closed[i] = resource
    ELSE 0

\* C28: the HTTP transport is closed only after the workers have stopped and
\* the results are drained; when cleanup has ended the store, the robots
\* checker and the frontier are closed, in this order, after the transport.
C28_ShutdownOrder ==
    /\ [](ClosedAt("http") > 0 =>
            pool.stop = "returned" /\ ClosedAt("workers") > 0 /\ result_queue = <<>>)
    /\ [](pool.cleanup = Len(CleanupOrder) =>
            /\ 0 < ClosedAt("http")
            /\ ClosedAt("http") < ClosedAt("db")
            /\ ClosedAt("db") < ClosedAt("robots")
            /\ ClosedAt("robots") < ClosedAt("queue"))

\* C29: when start_crawl has failed before its dispatch loop, the store has
\* no row for the session.
C29_FatalStartup ==
    (eng.pc = "raised" /\ eng.loop_iteration = 0) => eng.session_row = "absent"

\* CrawlerConfig.queue_recovery_timeout, in seconds
queue_recovery_timeout == 300

\* C30: the recovery at the start of a frontier leaves in `processing` every
\* row that entered `processing` no longer ago than the recovery timeout.
C30_RecoveryThreshold ==
    [][op'.name = "load" =>
          \A u \in URLS :
              (db[u].status = "processing"
                 /\ now - db[u].updated_at <= queue_recovery_timeout)
              => db'[u].status = "processing"]_vars

----------------------------------------------------------------------------
(* Claims about the crawl delay of robots.txt *)

\* a step that is a call of should_wait_for_crawl_delay
IsDelayCall ==
    /\ now' = now
    /\ hist'.robots_check.cause = "crawl_delay"

\* C31 (Crawl-delay query): should_wait_for_crawl_delay(url) returns
\* max(0, crawl_delay - (now - last_access[host])) and leaves last_access
\* as it was; a call that follows a call for the same url at the same reading
\* of the clock returns the same value.
C31_DelayQuery ==
    [][IsDelayCall =>
         LET c == hist'.robots_check
             d == domain(c.url)
         IN  /\ c.ret = Max(0, robots_crawl_delay(d) - (now - eng.last_access[d]))
             /\ eng'.last_access = eng.last_access
             /\ (/\ hist.robots_check.cause = "crawl_delay"
                 /\ hist.robots_check.url = c.url
                 /\ hist.robots_check.at = now) => c.ret = hist.robots_check.ret]_vars

----------------------------------------------------------------------------
(* Further claims about the frontier *)

\* the frontier holds max_size entries
AtCapacity == fq.max_size > 0 /\ Len(fq.queue) >= fq.max_size

\* C32 (Capacity-full is a soft rejection): a put on a frontier at capacity
\* returns False, does not raise, and leaves the queue, the pending map and
\* the Bloom filter as they were; when the url was refused for the capacity
\* alone, a put of it that follows the removal of an entry by get returns True.
C32_SoftRejection ==
    [][(op'.name = "put" /\ AtCapacity) =>
          /\ ~op'.ok
          /\ ~op'.raised
          /\ fq'.queue = fq.queue
          /\ fq'.pending_urls = fq.pending_urls
          /\ fq'.bit_array = fq.bit_array
          /\ fq'.visited_urls = fq.visited_urls
          /\ ~put_is_duplicate(fq, url_hash(op'.url)) =>
                put(get(fq', now).q, now, op'.url, 0, 5).ret]_vars

\* a put has just been refused for the capacity alone
C32_Witness ==
    /\ op.name = "put"
    /\ ~op.ok
    /\ AtCapacity
    /\ ~put_is_duplicate(fq, url_hash(op.url))
    /\ fq.enable_bloom_filter

\* two entries that the order of QueuedURL does not tell apart
Tied(a, b) ==
    /\ a.priority = b.priority
    /\ a.depth = b.depth
    /\ a.discovered_at = b.discovered_at

\* C33 (Ties): among pending entries with equal priority, equal depth and
\* equal discovered_at, get returns the entry that was inserted first: no
\* entry that stays behind is tied with the entry returned and was inserted
\* before it.
C33_Ties ==
    [][(op'.name = "get" /\ op'.ok) =>
          \A e \in Range(fq'.queue) : Tied(e, op'.got) => op'.got.url < e.url]_vars

----------------------------------------------------------------------------
(* Further claims about the engine *)

\* C34 (Error events): the handling of a failed worker result inserts exactly
\* one row into error_events, and the row names the row of the pages table
\* stored for the result; the handling of a successful result inserts none.
C34_ErrorEvents ==
    [][IsHandle =>
          LET result == Head(result_queue)
              page == <<result.url, result.depth>>
          IN  IF result.success
              THEN eng'.error_events = eng.error_events
              ELSE /\ eng'.error_events = Append(eng.error_events, page)
                   /\ page \in eng'.pages]_vars

\* C35 (Stall detection): the dispatch loop is left through the stall
\* detection only if no url was dispatched and no result was handled in the
\* iterations that stalled_iterations has counted.
C35_StallDetection ==
    (eng.pc \in {"final", "done"} /\ eng.stalled_iterations >= StallLimit) =>
        /\ eng.submitted_tasks = hist.unstalled.submitted_tasks
        /\ eng.processed_results = hist.unstalled.processed_results

\* request_timeout of the configuration, in seconds: the total timeout of a
\* request of a worker
request_timeout == 30

\* C36 (Results at the return): when _crawl_loop has returned, every submitted
\* task has had its result handled, as long as no worker has been at a task
\* for longer than the request timeout; crawls that end on the cap of the
\* iterations, or with a task that no worker has taken, are left aside.
C36_AllResultsHandled ==
    (/\ eng.pc = "done"
     /\ eng.loop_iteration < max_iterations
     /\ task_queue = <<>>
     /\ now - StartTime <= request_timeout) =>
        /\ eng.processed_results = eng.submitted_tasks
        /\ eng.pending_tasks = 0

\* C37 (Withdrawn urls leave processing): the row of every url that the engine
\* has withdrawn from a persistent frontier, and that is in the status
\* processing, gets another status later, pending, completed or failed.
C37_LeavesProcessing ==
    \A u \in URLS : (db[u].status = "processing") ~> (db[u].status # "processing")

\* C38 (Queue and pending map): between two operations of the frontier the
\* url-hashes of the entries of the heap are pairwise distinct and are the
\* keys of the pending map, so that size() is the number of pending entries.
C38_QueuePendingConsistency ==
    /\ \A i, j \in DOMAIN fq.queue :
          url_hash(fq.queue[i].url) = url_hash(fq.queue[j].url) => i = j
    /\ {url_hash(e.url) : e \in Range(fq.queue)} = DOMAIN fq.pending_urls
    /\ size(fq) = Cardinality(DOMAIN fq.pending_urls)

----------------------------------------------------------------------------
(* Further claims about concurrent callers *)

\* C39 (No url is lost by the put-back): when a call of get_with_rate_limit
\* that has withdrawn an entry returns None, the url of the entry is pending
\* in the frontier at the return, whatever other callers have put since the
\* withdrawal.
C39_PutBackKeepsUrl ==
    [][\A c \in CALLERS :
          (/\ calls'.of[c].name = "get_with_rate_limit"
           /\ calls.of[c].pc # "done"
           /\ calls'.of[c].pc = "done"
           /\ ~calls'.of[c].ret.ok
           /\ calls'.of[c].entry # None) =>
              url_hash(calls'.of[c].entry.url) \in DOMAIN fq'.pending_urls]_vars

====
